---------------------------- MODULE Spec2Model ----------------------------
(***************************************************************************)
(* State-machine model of the FRED search-result converter                 *)
(* (convert_search_results.py): the batch loop over the .txt files and, per *)
(* file, parse_search_result_file stepped one loop iteration at a time.     *)
(*                                                                         *)
(* Text is modelled as a sequence of atoms.  An atom is either one          *)
(* character (" ", a digit, ".", "-", an upper-case letter, another         *)
(* character) or one of the literal keywords the code tests for, so that    *)
(* startswith / replace / `in' / the two regular expressions are computed   *)
(* position by position as Python computes them.  The empty string is <<>>. *)
(* Indices i and j are 0-based as in the source.                            *)
(***************************************************************************)
EXTENDS Integers, Sequences, FiniteSets, TLC

VARIABLES
    txt_files,    \* the sorted list of input files, each [stem, content]
    f,            \* number of files already handed to the parser
    pc,           \* position in the code
    lines,        \* parse_search_result_file: lines
    query,        \* parse_search_result_file: query
    results,      \* parse_search_result_file: results
    i,            \* main scan index
    line,         \* lines[i].strip()
    j,            \* lookahead index
    next_line,    \* lines[j].strip()
    series_id,    \* match.group(1).strip()
    title,        \* match.group(2).strip()
    metadata,     \* the metadata dict of the record being built
    notes_lines,  \* the notes_lines list of the record being built
    data,         \* the value returned by the last call of the parser
    all_data,     \* the driver's dict: query -> data
    returned,     \* history: the values returned so far, one per file
    used,         \* history: lookahead indices that fed the record being built
    spans,        \* history: per emitted record, [start, stop, used]
    visited,      \* history: the indices subscripted by the call, in order
    traces,       \* history: the indices subscripted by each call so far
    output_file,  \* the consolidated JSON file: NoFile, or the dict written
    consolidated_sections,  \* the Markdown driver's list of sections
    markdown_file, \* the consolidated Markdown file: NoFile, or its lines
    df,           \* process_dataframe / process_csv_file: the data frame
    column_names, \* process_dataframe: the target columns
    limit,        \* --limit: None or an integer
    overwrite,    \* --overwrite
    idx,          \* number of rows the loop has gone over
    response,     \* the value returned by the last call of query_ollama
    calls,        \* history: the calls of query_ollama, one record per call
    original,     \* history: the data frame as it was handed over
    csv_file,     \* process_csv_file: the output file, NoFile or the frame
    input_dir_exists,    \* convert_all_search_results: input_dir.exists()
    individual_json,     \* convert_all_search_results: individual_json
    individual_markdown, \* convert_all_search_results: individual_markdown
    json_files,   \* the per-file JSON outputs: file stem -> dict written
    md_files,     \* the per-file Markdown outputs: file stem -> lines written
    before,       \* history: the output files as they were at the start
    args,         \* the calculator's main: the parsed command line
    params,       \* the calculator's main: params
    registry,     \* _PRODUCTION_FUNCTIONS: function name -> defaults
    handed        \* history: the params handed to the production function

vars == <<txt_files, f, pc, lines, query, results, i, line, j, next_line,
          series_id, title, metadata, notes_lines, data, all_data, returned,
          used, spans, visited, traces, output_file, consolidated_sections,
          markdown_file, df, column_names, limit, overwrite, idx, response,
          calls, original, csv_file, input_dir_exists, individual_json,
          individual_markdown, json_files, md_files, before, args, params,
          registry, handed>>

\* the arguments of the converters, and the files found at their start
settings == <<input_dir_exists, individual_json, individual_markdown, before>>

\* the variables of the programs other than the two converters
calculatorVars == <<args, params, registry, handed>>
otherPrograms == <<df, column_names, limit, overwrite, idx, response, calls,
                   original, csv_file, calculatorVars>>

-----------------------------------------------------------------------------
(* Bounds of the model *)

MaxBody == 4     \* lines of a freely composed document
MaxFields == 3   \* lines following the record-start line of a one-record document
MaxPad == 11     \* filler lines put in front of a Query: line
MaxRun == 4      \* lines of a permuted metadata run
MaxSeries == 2   \* series of a search result handed to save_results

(* Program constants: the slice lines[:10], the rule "=" * 50 *)
QueryScanLimit == 10
RuleWidth == 50

-----------------------------------------------------------------------------
(* Strings *)

Min(S) == CHOOSE x \in S : \A y \in S : x <= y
Max(S) == CHOOSE x \in S : \A y \in S : x >= y

IsSpace(c) == c = " "
Digits == {"0", "1", "2", "3", "4", "5", "6", "7", "8", "9"}    \* \d
IdChars == {"A", "B"} \cup Digits                               \* [A-Z0-9]

NonSpace(s) == {k \in 1..Len(s) : ~IsSpace(s[k])}

\* str.strip(), str.lstrip(), str.rstrip()
Strip(s) == IF NonSpace(s) = {} THEN <<>>
            ELSE SubSeq(s, Min(NonSpace(s)), Max(NonSpace(s)))
LStrip(s) == IF NonSpace(s) = {} THEN <<>>
             ELSE SubSeq(s, Min(NonSpace(s)), Len(s))
RStrip(s) == IF NonSpace(s) = {} THEN <<>>
             ELSE SubSeq(s, 1, Max(NonSpace(s)))

\* str.startswith(p)
StartsWith(s, p) == Len(s) >= Len(p) /\ SubSeq(s, 1, Len(p)) = p

\* s[n:]
From(s, n) == SubSeq(s, n + 1, Len(s))

\* str.replace(old, ""): every non-overlapping occurrence, left to right
RECURSIVE Remove(_, _)
Remove(s, old) ==
    IF Len(s) < Len(old) THEN s
    ELSE IF StartsWith(s, old) THEN Remove(From(s, Len(old)), old)
    ELSE <<Head(s)>> \o Remove(Tail(s), old)

\* `kw in s' for a keyword kw
Contains(s, kw) == \E k \in 1..Len(s) : s[k] = kw

\* str(n) for n >= 0
DecimalDigits == <<"0", "1", "2", "3", "4", "5", "6", "7", "8", "9">>
RECURSIVE Decimal(_)
Decimal(n) ==
    IF n < Len(DecimalDigits) THEN <<DecimalDigits[n + 1]>>
    ELSE Decimal(n \div Len(DecimalDigits))
         \o <<DecimalDigits[(n % Len(DecimalDigits)) + 1]>>

\* " ".join(xs)
RECURSIVE Join(_)
Join(xs) == IF xs = <<>> THEN <<>>
            ELSE IF Len(xs) = 1 THEN xs[1]
            ELSE xs[1] \o <<" ">> \o Join(Tail(xs))

(* The literal prefixes of the code *)
QueryPrefix == <<"Query:", " ">>
UnitsPrefix == <<"Units:", " ">>
FrequencyPrefix == <<"Frequency:", " ">>
LastUpdatedPrefix == <<"Last Updated:", " ">>
NotesPrefix == <<"Notes:", " ">>
NoDescription == <<"No description available">>
HeaderPrefixes == {<<"FRED Series">>, <<"Query:">>, <<"Timestamp:">>,
                   <<"Total Results:">>}

\* line.startswith(("FRED Series", "Query:", "Timestamp:", "Total Results:"))
IsHeader(s) == \E p \in HeaderPrefixes : StartsWith(s, p)

-----------------------------------------------------------------------------
(* The two regular expressions *)

\* length of the longest run of characters of class C that starts at s[k]
RECURSIVE RunLen(_, _, _)
RunLen(s, k, C) ==
    IF k <= Len(s) /\ s[k] \in C THEN 1 + RunLen(s, k + 1, C) ELSE 0

\* re.match(r"\d+\.", s)
MatchNumbered(s) ==
    LET n == RunLen(s, 1, Digits)
    IN  n >= 1 /\ Len(s) >= n + 1 /\ s[n + 1] = "."

\* faulty variant of SeriesMatch: any amount of white space around the id and
\* the hyphen, as in r"\d+\.\s+([A-Z0-9]+)\s+-\s+(.+)"
SeriesMatchSpaced(s) ==
    LET n == RunLen(s, 1, Digits)
        p == RunLen(s, n + 2, {" "})
        m == RunLen(s, n + 2 + p, IdChars)
        e == n + 1 + p + m
        q == RunLen(s, e + 1, {" "})
        r == RunLen(s, e + q + 2, {" "})
    IN  IF /\ n >= 1
           /\ Len(s) >= e + q + r + 2
           /\ s[n + 1] = "."
           /\ p >= 1
           /\ m >= 1
           /\ q >= 1
           /\ s[e + q + 1] = "-"
           /\ r >= 1
        THEN [ok |-> TRUE, g1 |-> SubSeq(s, n + 2 + p, e),
              g2 |-> From(s, e + q + r + 1)]
        ELSE [ok |-> FALSE, g1 |-> <<>>, g2 |-> <<>>]

\* re.match(r"\d+\. ([A-Z0-9]+) - (.+)", s): \d+ and [A-Z0-9]+ are greedy and
\* each is followed by a character outside its class, so only the maximal
\* runs can match; (.+) takes the rest of the line, at least one character.
SeriesMatch(s) ==
    LET n == RunLen(s, 1, Digits)
        m == RunLen(s, n + 3, IdChars)
        e == n + 2 + m      \* index of the last character of group 1
    IN  IF /\ n >= 1
           /\ Len(s) >= e + 4
           /\ s[n + 1] = "."
           /\ s[n + 2] = " "
           /\ m >= 1
           /\ s[e + 1] = " "
           /\ s[e + 2] = "-"
           /\ s[e + 3] = " "
        THEN [ok |-> TRUE, g1 |-> SubSeq(s, n + 3, e), g2 |-> From(s, e + 3)]
        ELSE [ok |-> FALSE, g1 |-> <<>>, g2 |-> <<>>]

-----------------------------------------------------------------------------
(* Reading a file *)

\* content.strip().split("\n"), the content given as its raw lines: blank
\* lines at both ends go, the first line left loses its leading and the last
\* its trailing white space; "".split("\n") is [""].
ReadLines(raw) ==
    LET keep == {k \in 1..Len(raw) : Strip(raw[k]) # <<>>}
    IN  IF keep = {} THEN << <<>> >>
        ELSE LET lo == Min(keep)
                 hi == Max(keep)
             IN  [k \in 1..(hi - lo + 1) |->
                     IF lo = hi THEN Strip(raw[lo])
                     ELSE IF k = 1 THEN LStrip(raw[lo])
                     ELSE IF k = hi - lo + 1 THEN RStrip(raw[hi])
                     ELSE raw[lo + k - 1]]

-----------------------------------------------------------------------------
(* The input files of the model *)

Indent == <<" ", " ", " ">>
Blank == <<>>
RecA == <<"1", ".", " ", "A", " ", "-", " ", "s">>
RecB == <<"2", ".", " ", "B", "2", " ", "-", " ", " ", "t">>
UnitsLine == Indent \o <<"Units:", " ", "u">>
FrequencyLine == Indent \o <<"Frequency:", " ", "q">>
LastUpdatedLine == Indent \o <<"Last Updated:", " ", "d">>
NotesLine == Indent \o <<"Notes:", " ", "n">>
SentinelLine == Indent \o <<"Notes:", " ", "No description available">>
StrayLine == <<"c", " ", "c">>
NumberedLine == <<"1", ".", " ", " ", "A", " ", "-", " ", "s">>
BulletLine == <<"2", ".", " ", "c">>
WideHyphenLine == <<"1", ".", " ", "A", " ", " ", "-", " ", "s">>
RecNotesLine == <<"1", ".", " ", "A", " ", "-", " ", "Notes:", " ", "x">>
PipedRecLine == <<"2", ".", " ", "B", " ", "-", " ", "s", "|", "t">>
PipedNotesLine == Indent \o <<"Notes:", " ", "|", "n", " ", "|", "|">>
BackslashUnitsLine == Indent \o <<"Units:", " ", "u", "\\", "|", "v", "\\">>
UnitsTwiceLine == <<"Units:", " ", "u", " ", "Units:", " ", "v">>
NotesTwiceLine == <<"Notes:", " ", "n", " ", "Notes:", " ", "m">>
UnitsEmptyLine == Indent \o <<"Units:", " ">>
QueryLine == <<"Query:", " ", "k">>
QueryOtherLine == <<"Query:", " ", "l">>
QueryTwiceLine == <<"Query:", " ", "k", " ", "Query:", " ", "l">>
QueryIndentedLine == Indent \o QueryLine
TitleLine == <<"FRED Series", " ", "h">>
TimestampLine == <<"Timestamp:", " ", "2">>
TotalLine == <<"Total Results:", " ", "1">>

\* all sequences over S of length at most n
SeqUpTo(S, n) == UNION {[1..m -> S] : m \in 0..n}

\* n copies of x
Copies(x, n) == [k \in 1..n |-> x]

CorePool == {Blank, RecA, RecB, UnitsLine, NotesLine, SentinelLine,
             StrayLine, NumberedLine}
FieldPool == {Blank, UnitsLine, FrequencyLine, LastUpdatedLine, NotesLine,
              SentinelLine, StrayLine, UnitsTwiceLine, NotesTwiceLine,
              UnitsEmptyLine, QueryLine}
QueryPool == {QueryLine, QueryTwiceLine, QueryIndentedLine}
PadPool == {StrayLine, TimestampLine}
LoopPool == {Blank, RecB, UnitsLine, FrequencyLine, LastUpdatedLine, NotesLine,
             StrayLine, BulletLine, QueryLine}
RenderPool == {Blank, RecB, PipedRecLine, UnitsLine, PipedNotesLine,
               SentinelLine, BackslashUnitsLine, QueryLine}
ShapePool == {Blank, UnitsLine, NotesLine, StrayLine, BulletLine,
              WideHyphenLine, RecNotesLine}

\* freely composed documents
FreeDocs == SeqUpTo(CorePool, MaxBody)
\* one record-start line and what follows it
FieldDocs == {<<RecA>> \o r : r \in SeqUpTo(FieldPool, MaxFields)}
\* the producer's header, a Query: line behind n filler lines, one record
HeaderDocs ==
    {<<TitleLine>> \o Copies(p, n) \o <<q>> \o t :
        p \in PadPool, n \in 0..MaxPad, q \in QueryPool,
        t \in {<<>>, <<TotalLine, Blank, RecA, NotesLine>>, <<QueryLine>>}}

\* one record-start line, followed by numbered lines of other shapes
ShapeDocs == {<<RecA>> \o r : r \in SeqUpTo(ShapePool, MaxFields)}

\* records with "|" in their field values
RenderDocs == {<<RecA>> \o r : r \in SeqUpTo(RenderPool, MaxFields)}
             \cup {<<QueryLine>>, <<PipedRecLine>>}

\* short documents that take every path through the two loops
LoopDocs == {<<RecA>> \o r : r \in SeqUpTo(LoopPool, MaxFields - 1)}

File(stem, raw) == [stem |-> stem, content |-> raw]

-----------------------------------------------------------------------------
(* fred_explore.py: save_results, the producer of the .txt files *)

\* d.get(key, default)
Get(d, key, default) == IF key \in DOMAIN d THEN d[key] ELSE default

\* None, and the truth value of a series dict or None
None == [none |-> TRUE]
Truthy(x) == x # None

\* c.lower() and c.replace(' ', '_') for the characters of a query
FileNameChar(c) ==
    IF c = " " THEN "_"
    ELSE IF c = "K" THEN "k"
    ELSE IF c = "L" THEN "l"
    ELSE c

\* f"{query.lower().replace(' ', '_')}_{timestamp}", the stem of the .txt file
SavedStem(q, timestamp) ==
    [k \in 1..Len(q) |-> FileNameChar(q[k])] \o <<"_">> \o timestamp

\* the five lines written for the series at position at (idx in the source,
\* 0-based), and the blank line behind them
SavedSeries(at, s) ==
    << Decimal(at + 1) \o <<".", " ">> \o s.id \o <<" ", "-", " ">> \o s.title,
       Indent \o <<"Notes:", " ">> \o Get(s, "notes", NoDescription),
       Indent \o <<"Units:", " ">> \o Get(s, "units", <<"N/A">>),
       Indent \o <<"Frequency:", " ">> \o Get(s, "frequency", <<"N/A">>),
       Indent \o <<"Last Updated:", " ">> \o Get(s, "last_updated", <<"N/A">>),
       <<>> >>

\* for idx, s in enumerate(series): f.write(...)
RECURSIVE SavedList(_, _)
SavedList(at, series) ==
    IF at >= Len(series) THEN <<>>
    ELSE SavedSeries(at, series[at + 1]) \o SavedList(at + 1, series)

\* if selected_series: the rule and the three lines of the selected series
SavedSelection(selected_series) ==
    IF Truthy(selected_series)
    THEN << <<>>, Copies("=", RuleWidth), <<"SELECTED SERIES:">>,
            <<"ID:", " ">> \o selected_series.id,
            <<"Title:", " ">> \o selected_series.title,
            <<"Description:", " ">>
                \o Get(selected_series, "notes", NoDescription) >>
    ELSE <<>>

\* the .txt file written by save_results(query, series, selected_series)
SaveResults(q, series, selected_series, timestamp) ==
    File(SavedStem(q, timestamp),
         << <<"FRED Series", " ", "Search Results">>,
            <<"Query:", " ">> \o q,
            <<"Timestamp:", " ">> \o timestamp,
            <<"Total Results:", " ">> \o Decimal(Len(series)),
            <<>> >>
         \o SavedList(0, series)
         \o SavedSelection(selected_series))

\* the arguments of save_results: series as returned by the FRED search, the
\* description being optional
SavedQueries == {<<"k">>, <<"K", " ", "L">>}
Timestamps == {<<"2", "0", "2", "6", "_", "1", "2">>}
SeriesDicts ==
    LET plain == {[id |-> a, title |-> <<"s">>, units |-> <<"u">>,
                   frequency |-> <<"q">>, last_updated |-> <<"d">>] :
                     a \in {<<"A">>, <<"B", "2">>}}
    IN  plain \cup {[id |-> s.id, title |-> s.title, units |-> s.units,
                     frequency |-> s.frequency, last_updated |-> s.last_updated,
                     notes |-> <<"n">>] : s \in plain}
SeriesLists == SeqUpTo(SeriesDicts, MaxSeries)
Selections(series) == {None} \cup {series[k] : k \in 1..Len(series)}
SavedFiles ==
    UNION {{SaveResults(q, series, sel, ts) : sel \in Selections(series)} :
              q \in SavedQueries, series \in SeriesLists, ts \in Timestamps}

OneFile == {<<File(<<"stem">>, raw)>> :
               raw \in FreeDocs \cup FieldDocs \cup HeaderDocs \cup ShapeDocs}
           \cup {<<file>> : file \in SavedFiles}

\* the metadata runs: at most one line for each prefix
UnitsChoice == {<<>>, <<UnitsLine>>, <<UnitsEmptyLine>>}
FrequencyChoice == {<<>>, <<FrequencyLine>>}
LastUpdatedChoice == {<<>>, <<LastUpdatedLine>>}
NotesChoice == {<<>>, <<NotesLine>>, <<SentinelLine>>}
MetadataRuns ==
    {r \in {n \o u \o q \o d : n \in NotesChoice, u \in UnitsChoice,
                               q \in FrequencyChoice, d \in LastUpdatedChoice} :
        Len(r) <= MaxRun}

\* the rearrangements of a sequence
Rearranged(r) ==
    {[k \in 1..Len(r) |-> r[pi[k]]] : pi \in Permutations(1..Len(r))}

\* the same file parsed twice
SameTwice == {<<File(<<"stem">>, raw), File(<<"stem">>, raw)>> :
                 raw \in SeqUpTo(CorePool, MaxBody - 1)}
\* a record with a metadata run, and the same record with the run rearranged
RunPairs ==
    UNION {{<<File(<<"stem">>, <<RecA>> \o r), File(<<"stem">>, <<RecA>> \o p)>> :
               p \in Rearranged(r)} : r \in MetadataRuns}
\* s without its k-th element
Without(s, k) == [m \in 1..(Len(s) - 1) |-> IF m < k THEN s[m] ELSE s[m + 1]]

\* a record with blank lines among the lines behind it, and the same document
\* with one of the blank lines deleted
SeparatorPool == {Blank, RecB, UnitsLine, NotesLine, SentinelLine, StrayLine,
                  BulletLine}
SeparatedDocs ==
    {d \in {<<RecA>> \o r : r \in SeqUpTo(SeparatorPool, MaxFields)} :
        d[Len(d)] # Blank}
BlankPairs ==
    UNION {{<<File(<<"stem">>, d), File(<<"stem">>, Without(d, k))>> :
               k \in {m \in 1..Len(d) : d[m] = Blank}} : d \in SeparatedDocs}
\* two files of different names, each with or without a Query: line
LabelChoice == {<<>>, <<QueryLine>>, <<QueryOtherLine>>}
LabelDocs == {l \o x : l \in LabelChoice,
                       x \in {<<>>, <<RecA>>, <<RecA, UnitsLine>>}}
LabelPairs == {<<File(<<"a">>, d1), File(<<"k">>, d2)>> :
                  d1 \in LabelDocs, d2 \in LabelDocs}
TwoFiles == SameTwice \cup RunPairs \cup BlankPairs \cup LabelPairs

-----------------------------------------------------------------------------
(* Initial state *)

EmptyMetadata == [frequency |-> <<>>, units |-> <<>>, last_updated |-> <<>>,
                  notes |-> <<>>]
NoData == [query |-> <<>>, results |-> <<>>]
\* a file that has not been written, and a file with its content
NoFile == [exists |-> FALSE]
Written(content) == [exists |-> TRUE, content |-> content]

\* a float: mantissa * 10^exponent, the mantissa without trailing zeros
Float(mantissa, exponent) == [mantissa |-> mantissa, exponent |-> exponent]

\* _PRODUCTION_FUNCTIONS: the defaults of each production function, the names
\* of the parameters being texts
PRODUCTION_FUNCTIONS ==
    [name \in {"cobb_douglas", "ces", "leontief"} |->
        CASE name = "cobb_douglas" ->
                (<<"A">> :> Float(1, 0)) @@ (<<"alpha">> :> Float(3, -1))
                @@ (<<"beta">> :> Float(7, -1))
          [] name = "ces" ->
                (<<"A">> :> Float(1, 0)) @@ (<<"delta">> :> Float(5, -1))
                @@ (<<"rho">> :> Float(-5, -1))
          [] name = "leontief" ->
                (<<"A">> :> Float(1, 0)) @@ (<<"a_coef">> :> Float(1, 0))
                @@ (<<"b_coef">> :> Float(1, 0))]

\* the production function has not been called, and it was called with params
NotCalled == [called |-> FALSE]
CalledWith(d) == [called |-> TRUE, params |-> d]

\* the calculator is not running
NoArgs == [function |-> "cobb_douglas"]
CalculatorIdle ==
    /\ args = NoArgs
    /\ params = <<>>
    /\ registry = PRODUCTION_FUNCTIONS
    /\ handed = NotCalled

\* the programs that query the model are not running
NoFrame == [columns |-> <<>>, rows |-> <<>>]
NoResponse == [kind |-> "none"]
OllamaIdle ==
    /\ df = NoFrame
    /\ column_names = <<>>
    /\ limit = None
    /\ overwrite = FALSE
    /\ idx = 0
    /\ response = NoResponse
    /\ calls = <<>>
    /\ original = NoFrame
    /\ csv_file = NoFile

\* the locals of the converters before the first file
ConverterLocals ==
    /\ f = 0
    /\ lines = <<>>
    /\ query = <<>>
    /\ results = <<>>
    /\ i = 0
    /\ line = <<>>
    /\ j = 0
    /\ next_line = <<>>
    /\ series_id = <<>>
    /\ title = <<>>
    /\ metadata = EmptyMetadata
    /\ notes_lines = <<>>
    /\ data = NoData
    /\ all_data = <<>>
    /\ returned = <<>>
    /\ used = {}
    /\ spans = <<>>
    /\ visited = <<>>
    /\ traces = <<>>
    /\ consolidated_sections = <<>>

\* the output files as the history keeps them
OutputFiles(consolidated_json, consolidated_markdown, per_file_json,
            per_file_markdown) ==
    [output_file |-> consolidated_json, markdown_file |-> consolidated_markdown,
     json_files |-> per_file_json, md_files |-> per_file_markdown]

\* no output file is there yet, the input directory is, and no per-file
\* output is asked for
NoOutputs ==
    /\ output_file = NoFile
    /\ markdown_file = NoFile
    /\ json_files = <<>>
    /\ md_files = <<>>
    /\ before = OutputFiles(NoFile, NoFile, <<>>, <<>>)
DefaultSettings ==
    /\ input_dir_exists = TRUE
    /\ individual_json = FALSE
    /\ individual_markdown = FALSE

InitLocals ==
    /\ pc = "driver"
    /\ ConverterLocals
    /\ NoOutputs
    /\ DefaultSettings
    /\ OllamaIdle
    /\ CalculatorIdle

Init == txt_files \in OneFile /\ InitLocals
InitPairs == txt_files \in TwoFiles /\ InitLocals

-----------------------------------------------------------------------------
(* Subscripting *)

\* lines[k] is defined for -len(lines) <= k < len(lines), else IndexError
InRange(k) == -Len(lines) <= k /\ k < Len(lines)
Item(k) == IF k >= 0 THEN lines[k + 1] ELSE lines[Len(lines) + k + 1]

-----------------------------------------------------------------------------
(* The batch loop of convert_all_search_results *)

parseLocals == <<lines, query, results, i, line, j, next_line, series_id,
                 title, metadata, notes_lines, used, spans, visited>>
markdownVars == <<consolidated_sections, markdown_file>>

\* faulty variant of HasTxtFiles: an empty list passes
HasTxtFilesOrNone == TRUE

\* "if not txt_files: return" is not taken
HasTxtFiles == txt_files # <<>>

\* if not input_dir.exists(): return
DirMissing ==
    /\ pc = "enter"
    /\ ~input_dir_exists
    /\ pc' = "early"
    /\ UNCHANGED <<otherPrograms, settings, json_files, md_files, txt_files,
                   f, parseLocals, data, all_data, returned, traces,
                   output_file, markdownVars>>

\* txt_files = sorted(input_dir.glob("*.txt")); if not txt_files: return
NoTxtFiles ==
    /\ pc = "enter"
    /\ input_dir_exists
    /\ ~HasTxtFiles
    /\ pc' = "early"
    /\ UNCHANGED <<otherPrograms, settings, json_files, md_files, txt_files,
                   f, parseLocals, data, all_data, returned, traces,
                   output_file, markdownVars>>

\* txt_files = sorted(input_dir.glob("*.txt")); all_data = {}
Enter ==
    /\ pc = "enter"
    /\ input_dir_exists
    /\ HasTxtFiles
    /\ all_data' = <<>>
    /\ pc' = "driver"
    /\ UNCHANGED <<otherPrograms, settings, json_files, md_files, txt_files,
                   f, parseLocals, data, returned, traces, output_file,
                   markdownVars>>

\* for txt_file in txt_files: data = parse_search_result_file(txt_file)
NextFile ==
    /\ pc = "driver"
    /\ f < Len(txt_files)
    /\ f' = f + 1
    /\ pc' = "read"
    /\ UNCHANGED <<otherPrograms, settings, json_files, md_files, txt_files, parseLocals, data, all_data, returned, traces,
                   output_file, markdownVars>>

\* query = data["query"]; all_data[query] = data
Store ==
    /\ pc = "returned"
    /\ all_data' = (data.query :> data) @@ all_data
    /\ returned' = Append(returned, data)
    /\ traces' = Append(traces, visited)
    /\ json_files' = IF individual_json
                     THEN (txt_files[f].stem :> data) @@ json_files
                     ELSE json_files
    /\ pc' = "driver"
    /\ UNCHANGED <<otherPrograms, settings, txt_files, f, parseLocals, data,
                   output_file, markdownVars, md_files>>

\* the loop is over: output_file.write_text(json.dumps(all_data, ...))
Finish ==
    /\ pc = "driver"
    /\ f >= Len(txt_files)
    /\ output_file' = Written(all_data)
    /\ pc' = "finished"
    /\ UNCHANGED <<otherPrograms, settings, json_files, md_files, txt_files, f, parseLocals, data, all_data, returned, traces,
                   markdownVars>>

-----------------------------------------------------------------------------
(* parse_search_result_file *)

driverVars == <<otherPrograms, settings, json_files, md_files, txt_files, f, all_data, returned, traces, output_file,
                markdownVars>>

\* faulty variant of NoLines: a document without text counts as no lines
NoLinesOrBlank(ls) == ls = <<>> \/ ls = << <<>> >>

\* not lines
NoLines(ls) == ls = <<>>

\* lines = content.strip().split("\n"); if not lines: return {...}
\* (split never returns an empty list, so the early return is never taken)
ReadFile ==
    /\ pc = "read"
    /\ lines' = ReadLines(txt_files[f].content)
    /\ IF NoLines(lines')
       THEN /\ data' = [query |-> txt_files[f].stem, results |-> <<>>]
            /\ pc' = "returned"
       ELSE /\ data' = data
            /\ pc' = "query"
    /\ visited' = <<>>
    /\ UNCHANGED <<driverVars, query, results, i, line, j, next_line,
                   series_id, title, metadata, notes_lines, used, spans>>

\* faulty variant of QueryWindow: the slice forgotten
QueryWindowWhole == lines

\* lines[:10]
QueryWindow == SubSeq(lines, 1, IF Len(lines) < QueryScanLimit THEN Len(lines)
                                ELSE QueryScanLimit)

\* the first line of the window that starts with "Query: ", 0 if none
FirstQueryLine ==
    LET hits == {k \in 1..Len(QueryWindow) : StartsWith(QueryWindow[k], QueryPrefix)}
    IN  IF hits = {} THEN 0 ELSE Min(hits)

\* line.replace("Query: ", "").strip(), and likewise for the other prefixes
ValueAfter(s, prefix) == Strip(Remove(s, prefix))

\* faulty variant of FreshResults: the list of the previous call is reused
StaleResults == results

\* results: List[Dict[str, str]] = []
FreshResults == <<>>

\* query = file_path.stem; for line in lines[:10]: ...; results = []; i = 0
ExtractQuery ==
    /\ pc = "query"
    /\ query' = IF FirstQueryLine = 0 THEN txt_files[f].stem
                ELSE ValueAfter(QueryWindow[FirstQueryLine], QueryPrefix)
    /\ results' = FreshResults
    /\ i' = 0
    /\ spans' = <<>>
    /\ pc' = "main"
    /\ UNCHANGED <<driverVars, visited, lines, line, j, next_line, series_id, title,
                   metadata, notes_lines, data, used>>

\* while i < len(lines)
MainCond == i < Len(lines)

\* while i < len(lines): line = lines[i].strip()
MainFetch ==
    /\ pc = "main"
    /\ IF MainCond
       THEN IF InRange(i)
            THEN line' = Strip(Item(i)) /\ pc' = "main_body"
            ELSE line' = line /\ pc' = "raised"
       ELSE line' = line /\ pc' = "return"
    /\ visited' = IF MainCond /\ InRange(i) THEN Append(visited, i) ELSE visited
    /\ UNCHANGED <<driverVars, lines, query, results, i, j, next_line,
                   series_id, title, metadata, notes_lines, data, used, spans>>

\* not line or line.startswith(("FRED Series", "Query:", ...))
Skipped(s) == s = <<>> \/ IsHeader(s)

\* if not line or line.startswith(...): i += 1; continue
MainSkip ==
    /\ pc = "main_body"
    /\ Skipped(line)
    /\ i' = i + 1
    /\ pc' = "main"
    /\ UNCHANGED <<driverVars, visited, lines, query, results, line, j, next_line,
                   series_id, title, metadata, notes_lines, data, used, spans>>

\* if match: series_id, title, metadata = {...}, j = i + 1, notes_lines = []
MainMatch ==
    /\ pc = "main_body"
    /\ ~Skipped(line)
    /\ SeriesMatch(line).ok
    /\ series_id' = Strip(SeriesMatch(line).g1)
    /\ title' = Strip(SeriesMatch(line).g2)
    /\ metadata' = EmptyMetadata
    /\ j' = i + 1
    /\ notes_lines' = <<>>
    /\ used' = {}
    /\ pc' = "look"
    /\ UNCHANGED <<driverVars, visited, lines, query, results, i, line, next_line,
                   data, spans>>

\* no match: i += 1
MainOther ==
    /\ pc = "main_body"
    /\ ~Skipped(line)
    /\ ~SeriesMatch(line).ok
    /\ i' = i + 1
    /\ pc' = "main"
    /\ UNCHANGED <<driverVars, visited, lines, query, results, line, j, next_line,
                   series_id, title, metadata, notes_lines, data, used, spans>>

\* faulty variant of LookCond: the bound of the lookahead off by one
LookCondInclusive == j <= Len(lines)

\* while j < len(lines)
LookCond == j < Len(lines)

\* while j < len(lines): next_line = lines[j].strip()
LookFetch ==
    /\ pc = "look"
    /\ IF LookCond
       THEN IF InRange(j)
            THEN next_line' = Strip(Item(j)) /\ pc' = "look_body"
            ELSE next_line' = next_line /\ pc' = "raised"
       ELSE next_line' = next_line /\ pc' = "emit"
    /\ visited' = IF LookCond /\ InRange(j) THEN Append(visited, j) ELSE visited
    /\ UNCHANGED <<driverVars, lines, query, results, i, line, j, series_id,
                   title, metadata, notes_lines, data, used, spans>>

lookFrame == <<driverVars, lines, query, results, i, line, next_line,
               series_id, title, data, spans, visited>>

\* faulty variant of NumberedFollows: any line behind a blank line ends the
\* lookahead
AnyLineFollows == j + 1 < Len(lines)

\* j + 1 < len(lines) and re.match(r"\d+\.", lines[j + 1].strip())
NumberedFollows == j + 1 < Len(lines) /\ MatchNumbered(Strip(Item(j + 1)))

\* if not next_line: if <a numbered line follows>: break
LookBlankStop ==
    /\ pc = "look_body"
    /\ next_line = <<>>
    /\ NumberedFollows
    /\ pc' = "emit"
    /\ UNCHANGED <<lookFrame, j, metadata, notes_lines, used>>

\* faulty variant of BehindBlank: continue without j += 1
BehindBlankStuck == j

\* j += 1 (then continue)
BehindBlank == j + 1

\* if not next_line: ...; j += 1; continue
LookBlankSkip ==
    /\ pc = "look_body"
    /\ next_line = <<>>
    /\ ~NumberedFollows
    /\ j' = BehindBlank
    /\ pc' = "look"
    /\ UNCHANGED <<lookFrame, metadata, notes_lines, used>>

\* faulty variant of StopsLookahead: re.fullmatch in place of re.match
StopsOnBareNumber(s) == MatchNumbered(s) /\ Len(s) = RunLen(s, 1, Digits) + 1

\* re.match(r"\d+\.", next_line)
StopsLookahead(s) == MatchNumbered(s)

\* if re.match(r"\d+\.", next_line): break
LookNumbered ==
    /\ pc = "look_body"
    /\ next_line # <<>>
    /\ StopsLookahead(next_line)
    /\ pc' = "emit"
    /\ UNCHANGED <<lookFrame, j, metadata, notes_lines, used>>

\* the branch of the if/elif chain a consumed line takes
Branch(s) ==
    IF StartsWith(s, UnitsPrefix) THEN "units"
    ELSE IF StartsWith(s, FrequencyPrefix) THEN "frequency"
    ELSE IF StartsWith(s, LastUpdatedPrefix) THEN "last_updated"
    ELSE IF StartsWith(s, NotesPrefix) THEN "notes"
    ELSE "other"

Consumed(b) ==
    /\ pc = "look_body"
    /\ next_line # <<>>
    /\ ~StopsLookahead(next_line)
    /\ Branch(next_line) = b
    /\ j' = j + 1
    /\ pc' = "look"
    /\ UNCHANGED lookFrame

\* metadata["units"] = next_line.replace("Units: ", "").strip()
LookUnits ==
    /\ Consumed("units")
    /\ metadata' = [metadata EXCEPT !.units = ValueAfter(next_line, UnitsPrefix)]
    /\ used' = used \cup {j}
    /\ UNCHANGED notes_lines

\* metadata["frequency"] = next_line.replace("Frequency: ", "").strip()
LookFrequency ==
    /\ Consumed("frequency")
    /\ metadata' = [metadata EXCEPT
                       !.frequency = ValueAfter(next_line, FrequencyPrefix)]
    /\ used' = used \cup {j}
    /\ UNCHANGED notes_lines

\* metadata["last_updated"] = next_line.replace("Last Updated: ", "").strip()
LookLastUpdated ==
    /\ Consumed("last_updated")
    /\ metadata' = [metadata EXCEPT
                       !.last_updated = ValueAfter(next_line, LastUpdatedPrefix)]
    /\ used' = used \cup {j}
    /\ UNCHANGED notes_lines

\* faulty variant of KeepsNote: the sentinel misspelt
KeepsNoteMisspelt(note_text) == note_text # <<"No description">>

\* note_text != "No description available"
KeepsNote(note_text) == note_text # NoDescription

\* note_text = ...; if note_text != "No description available": append
LookNotes ==
    /\ Consumed("notes")
    /\ LET note_text == ValueAfter(next_line, NotesPrefix)
       IN  IF KeepsNote(note_text)
           THEN notes_lines' = Append(notes_lines, note_text) /\ used' = used \cup {j}
           ELSE notes_lines' = notes_lines /\ used' = used
    /\ UNCHANGED metadata

\* faulty variant of InNotesSection: the preceding line is not looked at
InNotesSectionStarted == notes_lines # <<>>

\* faulty variant of InNotesSection: the record-start line itself counts as
\* the preceding line
InNotesSectionAnyLine ==
    notes_lines # <<>> \/ Contains(Item(j - 1), "Notes:")

\* notes_lines or (j > i + 1 and "Notes:" in lines[j-1])
InNotesSection ==
    notes_lines # <<>> \/ (j > i + 1 /\ Contains(Item(j - 1), "Notes:"))

\* else: if <in notes section>: notes_lines.append(next_line)
LookOther ==
    /\ Consumed("other")
    /\ IF InNotesSection
       THEN notes_lines' = Append(notes_lines, next_line) /\ used' = used \cup {j}
       ELSE notes_lines' = notes_lines /\ used' = used
    /\ UNCHANGED metadata

\* faulty variant of ResumeIndex: the scan resumes one line too far
ResumeBehind == j + 1

\* i = j  # Skip to next series
ResumeIndex == j

\* if notes_lines: metadata["notes"] = " ".join(notes_lines).strip()
JoinedNotes == IF notes_lines # <<>> THEN Strip(Join(notes_lines))
               ELSE metadata.notes

\* results.append({"series_id": ..., "title": ..., **metadata}); i = j
EmitRecord ==
    /\ pc = "emit"
    /\ metadata' = [metadata EXCEPT !.notes = JoinedNotes]
    /\ results' = Append(results,
                     [series_id |-> series_id, title |-> title,
                      frequency |-> metadata.frequency, units |-> metadata.units,
                      last_updated |-> metadata.last_updated,
                      notes |-> JoinedNotes])
    /\ spans' = Append(spans, [start |-> i, stop |-> j, used |-> used])
    /\ i' = ResumeIndex
    /\ pc' = "main"
    /\ UNCHANGED <<driverVars, visited, lines, query, line, j, next_line, series_id,
                   title, notes_lines, data, used>>

\* return {"query": query, "result_count": len(results), "results": results}
Return ==
    /\ pc = "return"
    /\ data' = [query |-> query, result_count |-> Len(results), results |-> results]
    /\ pc' = "returned"
    /\ UNCHANGED <<driverVars, parseLocals>>

-----------------------------------------------------------------------------
(* convert_search_results_markdown.py: rendering.  A text with line breaks   *)
(* is the sequence of its lines, so "\n".join(...) is concatenation.         *)

\* faulty variant of EscapeMarkdown: nothing is escaped
EscapeNothing(text) == text

\* text.replace("|", "\\|")
RECURSIVE EscapeMarkdown(_)
EscapeMarkdown(text) ==
    IF text = <<>> THEN <<>>
    ELSE (IF Head(text) = "|" THEN <<"\\", "|">> ELSE <<Head(text)>>)
         \o EscapeMarkdown(Tail(text))

\* "| ID | Title | Frequency | Units | Last Updated | Notes |"
TableHeader == <<"|", " ", "ID", " ", "|", " ", "Title", " ", "|", " ",
                 "Frequency", " ", "|", " ", "Units", " ", "|", " ",
                 "Last Updated", " ", "|", " ", "Notes", " ", "|">>

\* "| --- | --- | --- | --- | --- | --- |"
TableSeparator == <<"|", " ", "---", " ", "|", " ", "---", " ", "|", " ",
                    "---", " ", "|", " ", "---", " ", "|", " ", "---", " ",
                    "|", " ", "---", " ", "|">>

\* "_No series found._"
NoSeriesLine == <<"_No series found._">>

\* f"| {series_id} | {title} | {frequency} | {units} | {last_updated} | {notes} |"
TableRow(item) ==
    <<"|", " ">> \o EscapeMarkdown(item.series_id)
    \o <<" ", "|", " ">> \o EscapeMarkdown(item.title)
    \o <<" ", "|", " ">> \o EscapeMarkdown(item.frequency)
    \o <<" ", "|", " ">> \o EscapeMarkdown(item.units)
    \o <<" ", "|", " ">> \o EscapeMarkdown(item.last_updated)
    \o <<" ", "|", " ">> \o EscapeMarkdown(item.notes)
    \o <<" ", "|">>

\* _render_query_markdown(query, data)
RenderQueryMarkdown(q, d) ==
    << <<"## ">> \o q, <<"Total results: ">> \o Decimal(d.result_count), <<>> >>
    \o (IF d.results = <<>>
        THEN <<NoSeriesLine, <<>> >>
        ELSE <<TableHeader, TableSeparator>>
             \o [k \in 1..Len(d.results) |-> TableRow(d.results[k])]
             \o << <<>> >>)

\* "# FRED Search Results", a section of one line
HeadingSection == << <<"# FRED Search Results">> >>

\* "\n".join([f"# FRED Search Results: {query}", "",
\*            _render_query_markdown(query, data)])
IndividualMarkdown(q, d) ==
    << <<"# FRED Search Results: ">> \o q, <<>> >> \o RenderQueryMarkdown(q, d)

\* "\n".join(sections)
RECURSIVE JoinSections(_)
JoinSections(sections) ==
    IF sections = <<>> THEN <<>>
    ELSE Head(sections) \o JoinSections(Tail(sections))

-----------------------------------------------------------------------------
(* convert_search_results_markdown.py: the batch loop, run on the same       *)
(* directory once the JSON conversion is over                                *)

\* the Markdown conversion of a directory the JSON conversion left early:
\* if not input_dir.exists(): return
MdDirMissing ==
    /\ pc = "early"
    /\ ~input_dir_exists
    /\ pc' = "md_early"
    /\ UNCHANGED <<otherPrograms, settings, json_files, md_files, txt_files,
                   f, parseLocals, data, all_data, returned, traces,
                   output_file, markdownVars>>

\* txt_files = sorted(input_dir.glob("*.txt")); if not txt_files: return
MdNoTxtFiles ==
    /\ pc = "early"
    /\ input_dir_exists
    /\ ~HasTxtFiles
    /\ pc' = "md_early"
    /\ UNCHANGED <<otherPrograms, settings, json_files, md_files, txt_files,
                   f, parseLocals, data, all_data, returned, traces,
                   output_file, markdownVars>>

\* txt_files = sorted(input_dir.glob("*.txt"))
\* consolidated_sections = ["# FRED Search Results"]; all_data = {}
StartMarkdown ==
    /\ pc = "finished"
    /\ input_dir_exists
    /\ HasTxtFiles
    /\ f' = 0
    /\ consolidated_sections' = <<HeadingSection>>
    /\ all_data' = <<>>
    /\ pc' = "md_driver"
    /\ UNCHANGED <<otherPrograms, settings, json_files, md_files, txt_files, parseLocals, data, returned, traces, output_file,
                   markdown_file>>

\* for txt_file in txt_files: data = parse_search_result_file(txt_file)
MdNextFile ==
    /\ pc = "md_driver"
    /\ f < Len(txt_files)
    /\ f' = f + 1
    /\ pc' = "md_read"
    /\ UNCHANGED <<otherPrograms, settings, json_files, md_files, txt_files, parseLocals, data, all_data, returned, traces,
                   output_file, markdownVars>>

\* all_data[query] = data
\* consolidated_sections.append(_render_query_markdown(query, data))
MdStore ==
    /\ pc = "md_returned"
    /\ all_data' = (data.query :> data) @@ all_data
    /\ consolidated_sections' =
          Append(consolidated_sections, RenderQueryMarkdown(data.query, data))
    /\ returned' = Append(returned, data)
    /\ traces' = Append(traces, visited)
    /\ md_files' = IF individual_markdown
                   THEN (txt_files[f].stem :> IndividualMarkdown(data.query, data))
                        @@ md_files
                   ELSE md_files
    /\ pc' = "md_driver"
    /\ UNCHANGED <<otherPrograms, settings, txt_files, f, parseLocals, data,
                   output_file, markdown_file, json_files>>

\* output_file.write_text("\n".join(consolidated_sections))
MdFinish ==
    /\ pc = "md_driver"
    /\ f >= Len(txt_files)
    /\ markdown_file' = Written(JoinSections(consolidated_sections))
    /\ pc' = "md_finished"
    /\ UNCHANGED <<otherPrograms, settings, json_files, md_files, txt_files, f, parseLocals, data, all_data, returned, traces,
                   output_file, consolidated_sections>>

-----------------------------------------------------------------------------
(* convert_search_results_markdown.py: its copy of parse_search_result_file  *)

\* re.match(r"\d+\.", s)
MdMatchNumbered(s) ==
    LET n == RunLen(s, 1, Digits)
    IN  n >= 1 /\ Len(s) >= n + 1 /\ s[n + 1] = "."

\* re.match(r"\d+\. ([A-Z0-9]+) - (.+)", s): \d+ and [A-Z0-9]+ are greedy and
\* each is followed by a character outside its class, so only the maximal
\* runs can match; (.+) takes the rest of the line, at least one character.
MdSeriesMatch(s) ==
    LET n == RunLen(s, 1, Digits)
        m == RunLen(s, n + 3, IdChars)
        e == n + 2 + m      \* index of the last character of group 1
    IN  IF /\ n >= 1
           /\ Len(s) >= e + 4
           /\ s[n + 1] = "."
           /\ s[n + 2] = " "
           /\ m >= 1
           /\ s[e + 1] = " "
           /\ s[e + 2] = "-"
           /\ s[e + 3] = " "
        THEN [ok |-> TRUE, g1 |-> SubSeq(s, n + 3, e), g2 |-> From(s, e + 3)]
        ELSE [ok |-> FALSE, g1 |-> <<>>, g2 |-> <<>>]


\* not lines
MdNoLines(ls) == ls = <<>>

\* lines = content.strip().split("\n"); if not lines: return {...}
\* (split never returns an empty list, so the early return is never taken)
MdReadFile ==
    /\ pc = "md_read"
    /\ lines' = ReadLines(txt_files[f].content)
    /\ IF MdNoLines(lines')
       THEN /\ data' = [query |-> txt_files[f].stem, results |-> <<>>]
            /\ pc' = "md_returned"
       ELSE /\ data' = data
            /\ pc' = "md_query"
    /\ visited' = <<>>
    /\ UNCHANGED <<driverVars, query, results, i, line, j, next_line,
                   series_id, title, metadata, notes_lines, used, spans>>

\* lines[:10]
MdQueryWindow == SubSeq(lines, 1, IF Len(lines) < QueryScanLimit THEN Len(lines)
                                ELSE QueryScanLimit)

\* the first line of the window that starts with "Query: ", 0 if none
MdFirstQueryLine ==
    LET hits == {k \in 1..Len(MdQueryWindow) : StartsWith(MdQueryWindow[k], QueryPrefix)}
    IN  IF hits = {} THEN 0 ELSE Min(hits)

\* line.replace("Query: ", "").strip(), and likewise for the other prefixes
MdValueAfter(s, prefix) == Strip(Remove(s, prefix))

\* results: List[Dict[str, str]] = []
MdFreshResults == <<>>

\* query = file_path.stem; for line in lines[:10]: ...; results = []; i = 0
MdExtractQuery ==
    /\ pc = "md_query"
    /\ query' = IF MdFirstQueryLine = 0 THEN txt_files[f].stem
                ELSE MdValueAfter(MdQueryWindow[MdFirstQueryLine], QueryPrefix)
    /\ results' = MdFreshResults
    /\ i' = 0
    /\ spans' = <<>>
    /\ pc' = "md_main"
    /\ UNCHANGED <<driverVars, visited, lines, line, j, next_line, series_id, title,
                   metadata, notes_lines, data, used>>

\* while i < len(lines)
MdMainCond == i < Len(lines)

\* while i < len(lines): line = lines[i].strip()
MdMainFetch ==
    /\ pc = "md_main"
    /\ IF MdMainCond
       THEN IF InRange(i)
            THEN line' = Strip(Item(i)) /\ pc' = "md_main_body"
            ELSE line' = line /\ pc' = "md_raised"
       ELSE line' = line /\ pc' = "md_return"
    /\ visited' = IF MdMainCond /\ InRange(i) THEN Append(visited, i) ELSE visited
    /\ UNCHANGED <<driverVars, lines, query, results, i, j, next_line,
                   series_id, title, metadata, notes_lines, data, used, spans>>

\* not line or line.startswith(("FRED Series", "Query:", ...))
MdSkipped(s) == s = <<>> \/ IsHeader(s)

\* if not line or line.startswith(...): i += 1; continue
MdMainSkip ==
    /\ pc = "md_main_body"
    /\ MdSkipped(line)
    /\ i' = i + 1
    /\ pc' = "md_main"
    /\ UNCHANGED <<driverVars, visited, lines, query, results, line, j, next_line,
                   series_id, title, metadata, notes_lines, data, used, spans>>

\* if match: series_id, title, metadata = {...}, j = i + 1, notes_lines = []
MdMainMatch ==
    /\ pc = "md_main_body"
    /\ ~MdSkipped(line)
    /\ MdSeriesMatch(line).ok
    /\ series_id' = Strip(MdSeriesMatch(line).g1)
    /\ title' = Strip(MdSeriesMatch(line).g2)
    /\ metadata' = EmptyMetadata
    /\ j' = i + 1
    /\ notes_lines' = <<>>
    /\ used' = {}
    /\ pc' = "md_look"
    /\ UNCHANGED <<driverVars, visited, lines, query, results, i, line, next_line,
                   data, spans>>

\* no match: i += 1
MdMainOther ==
    /\ pc = "md_main_body"
    /\ ~MdSkipped(line)
    /\ ~MdSeriesMatch(line).ok
    /\ i' = i + 1
    /\ pc' = "md_main"
    /\ UNCHANGED <<driverVars, visited, lines, query, results, line, j, next_line,
                   series_id, title, metadata, notes_lines, data, used, spans>>

\* while j < len(lines)
MdLookCond == j < Len(lines)

\* while j < len(lines): next_line = lines[j].strip()
MdLookFetch ==
    /\ pc = "md_look"
    /\ IF MdLookCond
       THEN IF InRange(j)
            THEN next_line' = Strip(Item(j)) /\ pc' = "md_look_body"
            ELSE next_line' = next_line /\ pc' = "md_raised"
       ELSE next_line' = next_line /\ pc' = "md_emit"
    /\ visited' = IF MdLookCond /\ InRange(j) THEN Append(visited, j) ELSE visited
    /\ UNCHANGED <<driverVars, lines, query, results, i, line, j, series_id,
                   title, metadata, notes_lines, data, used, spans>>

\* j + 1 < len(lines) and re.match(r"\d+\.", lines[j + 1].strip())
MdNumberedFollows == j + 1 < Len(lines) /\ MdMatchNumbered(Strip(Item(j + 1)))

\* if not next_line: if <a numbered line follows>: break
MdLookBlankStop ==
    /\ pc = "md_look_body"
    /\ next_line = <<>>
    /\ MdNumberedFollows
    /\ pc' = "md_emit"
    /\ UNCHANGED <<lookFrame, j, metadata, notes_lines, used>>

\* j += 1 (then continue)
MdBehindBlank == j + 1

\* if not next_line: ...; j += 1; continue
MdLookBlankSkip ==
    /\ pc = "md_look_body"
    /\ next_line = <<>>
    /\ ~MdNumberedFollows
    /\ j' = MdBehindBlank
    /\ pc' = "md_look"
    /\ UNCHANGED <<lookFrame, metadata, notes_lines, used>>

\* re.match(r"\d+\.", next_line)
MdStopsLookahead(s) == MdMatchNumbered(s)

\* if re.match(r"\d+\.", next_line): break
MdLookNumbered ==
    /\ pc = "md_look_body"
    /\ next_line # <<>>
    /\ MdStopsLookahead(next_line)
    /\ pc' = "md_emit"
    /\ UNCHANGED <<lookFrame, j, metadata, notes_lines, used>>

\* the branch of the if/elif chain a consumed line takes
MdBranch(s) ==
    IF StartsWith(s, UnitsPrefix) THEN "units"
    ELSE IF StartsWith(s, FrequencyPrefix) THEN "frequency"
    ELSE IF StartsWith(s, LastUpdatedPrefix) THEN "last_updated"
    ELSE IF StartsWith(s, NotesPrefix) THEN "notes"
    ELSE "other"

MdConsumed(b) ==
    /\ pc = "md_look_body"
    /\ next_line # <<>>
    /\ ~MdStopsLookahead(next_line)
    /\ MdBranch(next_line) = b
    /\ j' = j + 1
    /\ pc' = "md_look"
    /\ UNCHANGED lookFrame

\* metadata["units"] = next_line.replace("Units: ", "").strip()
MdLookUnits ==
    /\ MdConsumed("units")
    /\ metadata' = [metadata EXCEPT !.units = MdValueAfter(next_line, UnitsPrefix)]
    /\ used' = used \cup {j}
    /\ UNCHANGED notes_lines

\* metadata["frequency"] = next_line.replace("Frequency: ", "").strip()
MdLookFrequency ==
    /\ MdConsumed("frequency")
    /\ metadata' = [metadata EXCEPT
                       !.frequency = MdValueAfter(next_line, FrequencyPrefix)]
    /\ used' = used \cup {j}
    /\ UNCHANGED notes_lines

\* metadata["last_updated"] = next_line.replace("Last Updated: ", "").strip()
MdLookLastUpdated ==
    /\ MdConsumed("last_updated")
    /\ metadata' = [metadata EXCEPT
                       !.last_updated = MdValueAfter(next_line, LastUpdatedPrefix)]
    /\ used' = used \cup {j}
    /\ UNCHANGED notes_lines

\* note_text != "No description available"
MdKeepsNote(note_text) == note_text # NoDescription

\* note_text = ...; if note_text != "No description available": append
MdLookNotes ==
    /\ MdConsumed("notes")
    /\ LET note_text == MdValueAfter(next_line, NotesPrefix)
       IN  IF MdKeepsNote(note_text)
           THEN notes_lines' = Append(notes_lines, note_text) /\ used' = used \cup {j}
           ELSE notes_lines' = notes_lines /\ used' = used
    /\ UNCHANGED metadata

\* notes_lines or (j > i + 1 and "Notes:" in lines[j - 1])
MdInNotesSection ==
    notes_lines # <<>> \/ (j > i + 1 /\ Contains(Item(j - 1), "Notes:"))

\* else: if <in notes section>: notes_lines.append(next_line)
MdLookOther ==
    /\ MdConsumed("other")
    /\ IF MdInNotesSection
       THEN notes_lines' = Append(notes_lines, next_line) /\ used' = used \cup {j}
       ELSE notes_lines' = notes_lines /\ used' = used
    /\ UNCHANGED metadata

\* i = j  # Skip to next series
MdResumeIndex == j

\* if notes_lines: metadata["notes"] = " ".join(notes_lines).strip()
MdJoinedNotes == IF notes_lines # <<>> THEN Strip(Join(notes_lines))
               ELSE metadata.notes

\* results.append({"series_id": ..., "title": ..., **metadata}); i = j
MdEmitRecord ==
    /\ pc = "md_emit"
    /\ metadata' = [metadata EXCEPT !.notes = MdJoinedNotes]
    /\ results' = Append(results,
                     [series_id |-> series_id, title |-> title,
                      frequency |-> metadata.frequency, units |-> metadata.units,
                      last_updated |-> metadata.last_updated,
                      notes |-> MdJoinedNotes])
    /\ spans' = Append(spans, [start |-> i, stop |-> j, used |-> used])
    /\ i' = MdResumeIndex
    /\ pc' = "md_main"
    /\ UNCHANGED <<driverVars, visited, lines, query, line, j, next_line, series_id,
                   title, notes_lines, data, used>>

\* return {"query": query, "result_count": len(results), "results": results}
MdReturn ==
    /\ pc = "md_return"
    /\ data' = [query |-> query, result_count |-> Len(results), results |-> results]
    /\ pc' = "md_returned"
    /\ UNCHANGED <<driverVars, parseLocals>>


-----------------------------------------------------------------------------
(* Specifications *)

Next ==
    \/ NextFile
    \/ ReadFile
    \/ ExtractQuery
    \/ MainFetch
    \/ MainSkip
    \/ MainMatch
    \/ MainOther
    \/ LookFetch
    \/ LookBlankStop
    \/ LookBlankSkip
    \/ LookNumbered
    \/ LookUnits
    \/ LookFrequency
    \/ LookLastUpdated
    \/ LookNotes
    \/ LookOther
    \/ EmitRecord
    \/ Return
    \/ Store
    \/ Finish

\* one input file
Spec == Init /\ [][Next]_vars

\* two input files, parsed one after the other
SpecPairs == InitPairs /\ [][Next]_vars

\* the steps of the Markdown conversion
MarkdownNext ==
    \/ StartMarkdown
    \/ MdNextFile
    \/ MdReadFile
    \/ MdExtractQuery
    \/ MdMainFetch
    \/ MdMainSkip
    \/ MdMainMatch
    \/ MdMainOther
    \/ MdLookFetch
    \/ MdLookBlankStop
    \/ MdLookBlankSkip
    \/ MdLookNumbered
    \/ MdLookUnits
    \/ MdLookFrequency
    \/ MdLookLastUpdated
    \/ MdLookNotes
    \/ MdLookOther
    \/ MdEmitRecord
    \/ MdReturn
    \/ MdStore
    \/ MdFinish

\* one input file, converted to JSON and then to Markdown
InitBoth ==
    /\ txt_files \in {<<File(<<"stem">>, raw)>> :
                         raw \in LoopDocs \cup ShapeDocs \cup RenderDocs}
    /\ InitLocals
NextBoth == Next \/ MarkdownNext
SpecBoth == InitBoth /\ [][NextBoth]_vars

\* one short input file, and the program keeps running: it is one sequential
\* process
InitFair ==
    /\ txt_files \in {<<File(<<"stem">>, raw)>> : raw \in LoopDocs}
    /\ InitLocals
SpecFair == InitFair /\ [][Next]_vars /\ WF_vars(Next)

\* both conversions from their first line, on a directory that may be
\* missing or hold no .txt file, with output files that may be there already
OldData == [query |-> <<"old">>, results |-> <<>>, result_count |-> 0]
OldOutputs ==
    OutputFiles(Written((<<"old">> :> OldData)), Written(<< <<"old">> >>),
                (<<"stem">> :> OldData), (<<"stem">> :> << <<"old">> >>))
InitDirs ==
    /\ pc = "enter"
    /\ ConverterLocals
    /\ OllamaIdle
    /\ CalculatorIdle
    /\ input_dir_exists \in BOOLEAN
    /\ txt_files \in IF input_dir_exists
                     THEN {<<>>} \cup {<<File(<<"stem">>, raw)>> : raw \in LoopDocs}
                     ELSE {<<>>}
    /\ individual_json \in BOOLEAN
    /\ individual_markdown \in BOOLEAN
    /\ before \in {OutputFiles(NoFile, NoFile, <<>>, <<>>), OldOutputs}
    /\ output_file = before.output_file
    /\ markdown_file = before.markdown_file
    /\ json_files = before.json_files
    /\ md_files = before.md_files
NextDirs ==
    \/ DirMissing
    \/ NoTxtFiles
    \/ Enter
    \/ MdDirMissing
    \/ MdNoTxtFiles
    \/ Next
    \/ MarkdownNext
SpecDirs == InitDirs /\ [][NextDirs]_vars

-----------------------------------------------------------------------------
(* The programs that query the model: analyze_tasks_to_target_with_ollama.py *)
(* (query_ollama, process_dataframe) and analyze_tasks_with_ollama.py        *)
(* (query_ollama, process_csv_file). The external call "ollama run" is an    *)
(* input: its outcome is drawn from a set.                                   *)

\* values of cells and of JSON members: the Python type and the text of
\* str(value)
Str(text) == [type |-> "str", text |-> text]
NaN == [type |-> "float", text |-> <<"nan">>]
Number == [type |-> "int", text |-> <<"1">>]
PyNone == [type |-> "NoneType", text |-> <<"None">>]

\* normalize_cell: "" for None and for NaN, else str(value).strip()
normalize_cell(value) ==
    IF value = PyNone THEN <<>>
    ELSE IF value.type = "float" /\ value = NaN THEN <<>>
    ELSE Strip(value.text)

\* the members a JSON object of the model's answer is made of, one atom each
Member(a) ==
    CASE a = "\"recommendedFredSeries\": \"v\"" ->
            [key |-> "recommendedFredSeries", value |-> Str(<<"v">>)]
      [] a = "\"reasonsForRecommendation\": \"w\"" ->
            [key |-> "reasonsForRecommendation", value |-> Str(<<"w">>)]
      [] a = "\"recommendedFredSeries\": \" \"" ->
            [key |-> "recommendedFredSeries", value |-> Str(<<" ">>)]
      [] a = "\"reasonsForRecommendation\": 1" ->
            [key |-> "reasonsForRecommendation", value |-> Number]
      [] a = "\"error\": \"e\"" ->
            [key |-> "error", value |-> Str(<<"e">>)]
      [] a = "\"role\": \"r\"" ->
            [key |-> "role", value |-> Str(<<"r">>)]
      [] a = "\"goal\": 1" ->
            [key |-> "goal", value |-> Number]
Members == {"\"recommendedFredSeries\": \"v\"",
            "\"reasonsForRecommendation\": \"w\"",
            "\"recommendedFredSeries\": \" \"",
            "\"reasonsForRecommendation\": 1",
            "\"error\": \"e\"", "\"role\": \"r\"", "\"goal\": 1"}

\* str.find and str.rfind: 0-based index of the first and of the last
\* occurrence, -1 if there is none
find(s, c) ==
    IF \E k \in 1..Len(s) : s[k] = c
    THEN Min({k \in 1..Len(s) : s[k] = c}) - 1 ELSE -1
rfind(s, c) ==
    IF \E k \in 1..Len(s) : s[k] = c
    THEN Max({k \in 1..Len(s) : s[k] = c}) - 1 ELSE -1

\* s[start:end] for 0 <= start <= end <= len(s)
Slice(s, start, end) == SubSeq(s, start + 1, end)

\* json.loads of a text that starts with "{" and ends with "}": white space
\* between the tokens is insignificant; an object is "{", members separated
\* by ",", "}"; anything else is a JSONDecodeError
Tokens(text) == SelectSeq(text, LAMBDA c : c # " ")
IsObject(t) ==
    /\ Len(t) >= 2
    /\ t[1] = "{"
    /\ t[Len(t)] = "}"
    /\ \/ Len(t) = 2
       \/ /\ Len(t) % 2 = 1
          /\ \A k \in 2..(Len(t) - 1) :
                IF k % 2 = 0 THEN t[k] \in Members ELSE t[k] = ","
\* the dict of an object: of two members with one key the later one counts
ObjectOf(t) ==
    LET at == {k \in 2..(Len(t) - 1) : k % 2 = 0}
        keys == {Member(t[k]).key : k \in at}
    IN  [key \in keys |->
            Member(t[Max({k \in at : Member(t[k]).key = key})]).value]
JsonDecodes(text) == IsObject(Tokens(text))
JsonLoads(text) == ObjectOf(Tokens(text))

\* the outcomes of subprocess.run(["ollama", "run", model], ...)
TimedOut == [kind |-> "timeout", returncode |-> 0, stdout |-> <<>>,
             stderr |-> <<>>]
LaunchFailed == [kind |-> "exception", returncode |-> 0, stdout |-> <<>>,
                 stderr |-> <<>>]
Exited(returncode, stdout, stderr) ==
    [kind |-> "exit", returncode |-> returncode, stdout |-> stdout,
     stderr |-> stderr]

\* what a call of query_ollama ends with
Returns(value) == [raised |-> FALSE, value |-> value]
Raises(exception) ==
    [raised |-> TRUE, value |-> [key \in {"exception"} |-> Str(<<exception>>)]]

\* analyze_tasks_to_target_with_ollama.py: {"error": text}
Error(text) == [key \in {"error"} |-> Str(text)]

\* analyze_tasks_to_target_with_ollama.py: query_ollama(prompt, model)
query_ollama(outcome) ==
    IF outcome.kind = "timeout" THEN Returns(Error(<<"TIMEOUT">>))
    ELSE IF outcome.kind = "exception"
    THEN Returns(Error(<<"UNEXPECTED_ERROR:", " ", "exc">>))
    ELSE IF outcome.returncode # 0
    THEN Returns(Error(<<"OLLAMA_ERROR:", " ">> \o Strip(outcome.stderr)))
    ELSE LET response_text == Strip(outcome.stdout)
             start == find(response_text, "{")
             end == rfind(response_text, "}") + 1
         IN  IF start = -1 \/ end <= start
             THEN Returns(Error(<<"PARSE_ERROR:", " ">> \o response_text))
             ELSE IF JsonDecodes(Slice(response_text, start, end))
             THEN Returns(JsonLoads(Slice(response_text, start, end)))
             ELSE Returns(Error(<<"JSON_ERROR:", " ", "exc", ":", " ">>
                                \o response_text))

\* analyze_tasks_with_ollama.py: the columns process_csv_file fills, and the
\* dict that has one tag under each of them
TaskFields == <<"role", "goal", "location", "company_level", "fred_category",
                "user_intent", "difficulty">>
Tagged(tag) == [key \in {TaskFields[k] : k \in 1..Len(TaskFields)} |->
                   Str(<<tag>>)]

\* task_description[:50] is defined for a str, else TypeError
Subscriptable(value) == value.type = "str"

\* analyze_tasks_with_ollama.py: query_ollama(task_description, model); the
\* handler of TimeoutExpired subscripts task_description, and what it raises
\* is not caught
tasks_query_ollama(task_description, outcome) ==
    IF outcome.kind = "timeout"
    THEN IF Subscriptable(task_description) THEN Returns(Tagged("TIMEOUT"))
         ELSE Raises("TypeError")
    ELSE IF outcome.kind = "exception" THEN Returns(Tagged("ERROR"))
    ELSE IF outcome.returncode # 0 THEN Returns(Tagged("ERROR"))
    ELSE LET response_text == Strip(outcome.stdout)
             start_idx == find(response_text, "{")
             end_idx == rfind(response_text, "}") + 1
         IN  IF start_idx # -1 /\ end_idx > start_idx
             THEN IF JsonDecodes(Slice(response_text, start_idx, end_idx))
                  THEN Returns(JsonLoads(Slice(response_text, start_idx,
                                               end_idx)))
                  ELSE Returns(Tagged("JSON_ERROR"))
             ELSE Returns(Tagged("PARSE_ERROR"))

-----------------------------------------------------------------------------
(* Data frames: [columns, rows], a row being a function from the column      *)
(* names to cells; the index is the default one, 0, 1, 2, ...                *)

Range(s) == {s[k] : k \in 1..Len(s)}

\* DEFAULT_COLUMNS
DEFAULT_COLUMNS == <<"recommendedFredSeries", "reasonsForRecommendation">>

\* a limit that was given on the command line; None if it was not
Given(n) == [none |-> FALSE, n |-> n]
\* "if limit": None and 0 are false
IsTrue(l) == l # None /\ l.n # 0

\* DataFrame.head(n): the first n rows, and for a negative n all rows but the
\* last -n
head(rows, n) ==
    IF n >= 0 THEN SubSeq(rows, 1, Min({n, Len(rows)}))
    ELSE SubSeq(rows, 1, Max({Len(rows) + n, 0}))

\* for name in column_names: if name not in df.columns: df[name] = ""
WithColumns(frame, names) ==
    LET missing == SelectSeq(names, LAMBDA n : n \notin Range(frame.columns))
    IN  [columns |-> frame.columns \o missing,
         rows |-> [k \in 1..Len(frame.rows) |->
                     [c \in DOMAIN frame.rows[k] \cup Range(missing) |->
                         IF c \in DOMAIN frame.rows[k] THEN frame.rows[k][c]
                         ELSE Str(<<>>)]]]

\* df[name] = '' for each of the names: the column is replaced if it is there
Blanked(frame, names) ==
    LET missing == SelectSeq(names, LAMBDA n : n \notin Range(frame.columns))
    IN  [columns |-> frame.columns \o missing,
         rows |-> [k \in 1..Len(frame.rows) |->
                     [c \in DOMAIN frame.rows[k] \cup Range(names) |->
                         IF c \in Range(names) THEN Str(<<>>)
                         ELSE frame.rows[k][c]]]]

\* rows = df.head(limit) if limit else df
rows == IF IsTrue(limit) THEN head(df.rows, limit.n) ELSE df.rows

\* existing_values = [normalize_cell(row.get(col)) for col in column_names];
\* all(existing_values)
AllFilled(row) ==
    \A k \in 1..Len(column_names) :
       normalize_cell(Get(row, column_names[k], PyNone)) # <<>>

\* str(response) of a dict, the keys in the order of KeyOrder
KeyOrder == <<"recommendedFredSeries", "reasonsForRecommendation", "error",
              "role", "goal">>
RECURSIVE ReprFrom(_, _)
ReprFrom(d, k) ==
    IF k > Len(KeyOrder) THEN <<>>
    ELSE (IF KeyOrder[k] \in DOMAIN d
          THEN <<KeyOrder[k], ":">> \o d[KeyOrder[k]].text ELSE <<>>)
         \o ReprFrom(d, k + 1)
Repr(d) == <<"{">> \o ReprFrom(d, 1) \o <<"}">>

\* the row after the answer was stored in it: the error text under every
\* target column, or per column the stripped value or a PARSE_ERROR text
Answered(row, r) ==
    [c \in DOMAIN row |->
        IF c \notin Range(column_names) THEN row[c]
        ELSE IF "error" \in DOMAIN r THEN r["error"]
        ELSE LET value == Get(r, c, PyNone)
             IN  IF value.type = "str" /\ Strip(value.text) # <<>>
                 THEN Str(Strip(value.text))
                 ELSE Str(<<"PARSE_ERROR:", " ">> \o Repr(r))]

\* df.at[idx, name] = result.get(name, 'ERROR') for the seven names
Analyzed(row, r) ==
    [c \in DOMAIN row |->
        IF c \in Range(TaskFields) THEN Get(r, c, Str(<<"ERROR">>))
        ELSE row[c]]

\* a call of query_ollama as the history keeps it
Call(program, row, argument, outcome, result) ==
    [program |-> program, row |-> row, argument |-> argument,
     outcome |-> outcome, raised |-> result.raised, value |-> result.value]

-----------------------------------------------------------------------------
(* Inputs of the programs that query the model *)

MaxRows == 2   \* rows of a data frame
MaxOut == 3    \* atoms of an answer of the model, composed freely

SaveEvery == 10   \* process_csv_file saves after every tenth row

\* answers of the model: free compositions, and longer ones that hold an
\* object
OutAtoms == {"{", "}", ",", " ", "x", "\"recommendedFredSeries\": \"v\"",
             "\"error\": \"e\""}
LongOutputs ==
    { <<"x", " ", "{", "\"recommendedFredSeries\": \"v\"", ",", " ",
        "\"reasonsForRecommendation\": \"w\"", "}", " ", "x">>,
      <<"{", "\"recommendedFredSeries\": \"v\"", "}", " ", "{", "}">>,
      <<"{", "\"role\": \"r\"", ",", "\"goal\": 1", "}">>,
      <<"{", "\"role\": \"r\"", "\"goal\": 1", "}">>,
      <<"{", "\"role\": \"r\"", ",", "}">>,
      <<"{", "\"recommendedFredSeries\": \" \"", ",",
        "\"recommendedFredSeries\": \"v\"", "}">> }
Outputs == SeqUpTo(OutAtoms, MaxOut) \cup LongOutputs
Outcomes ==
    {TimedOut, LaunchFailed}
    \cup {Exited(0, stdout, <<>>) : stdout \in Outputs}
    \cup {Exited(1, stdout, <<" ", "e", " ">>) : stdout \in Outputs}

\* the outcomes the loops over a data frame are run with
LoopOutcomes ==
    { TimedOut, Exited(1, <<>>, <<"e">>), Exited(0, <<"x">>, <<>>),
      Exited(0, <<"{", "\"recommendedFredSeries\": \"v\"", ",",
                  "\"reasonsForRecommendation\": \"w\"", "}">>, <<>>),
      Exited(0, <<"{", "\"recommendedFredSeries\": \" \"", ",",
                  "\"reasonsForRecommendation\": 1", "}">>, <<>>),
      Exited(0, <<"{", "\"role\": \"r\"", "}">>, <<>>) }

\* the frames pd.read_csv hands to process_dataframe: an empty cell is NaN
FirstCells == {NaN, Str(<<" ">>), Str(<<"v">>)}
SecondCells == {NaN, Str(<<"w">>)}
PlainRows == {[title |-> Str(<<"t">>)]}
TargetRows ==
    {[title |-> Str(<<"t">>), recommendedFredSeries |-> a,
      reasonsForRecommendation |-> b] : a \in FirstCells, b \in SecondCells}
TargetFrames ==
    {[columns |-> <<"title">>, rows |-> r] : r \in SeqUpTo(PlainRows, MaxRows)}
    \cup {[columns |-> <<"title">> \o DEFAULT_COLUMNS, rows |-> r] :
             r \in SeqUpTo(TargetRows, MaxRows)}
ColumnChoices == {DEFAULT_COLUMNS, <<"recommendedFredSeries">>}
Limits == {None} \cup {Given(n) : n \in -1..MaxRows}

\* the frames pd.read_csv hands to process_csv_file
TaskRows == {[task_name |-> c] : c \in {NaN, Str(<<"t">>)}}
TaskFrames ==
    {[columns |-> <<"task_name">>, rows |-> r] : r \in SeqUpTo(TaskRows, MaxRows)}

\* the variables of the converters but pc
converterVars == <<txt_files, f, parseLocals, data, all_data, returned,
                   traces, output_file, markdownVars, settings, json_files,
                   md_files>>
ConverterIdle ==
    txt_files = <<>> /\ ConverterLocals /\ NoOutputs /\ DefaultSettings

-----------------------------------------------------------------------------
(* process_dataframe *)

\* lines 132-136: the target columns are added, and the rows are chosen
PdEnter ==
    /\ pc = "pd_enter"
    /\ df' = WithColumns(df, column_names)
    /\ idx' = 0
    /\ pc' = "pd_loop"
    /\ UNCHANGED <<converterVars, calculatorVars, column_names, limit, overwrite, response,
                   calls, original, csv_file>>

\* lines 138-141: a row that is filled is passed over
PdSkip ==
    /\ pc = "pd_loop"
    /\ idx < Len(rows)
    /\ ~overwrite /\ AllFilled(rows[idx + 1])
    /\ idx' = idx + 1
    /\ UNCHANGED <<converterVars, calculatorVars, pc, df, column_names, limit, overwrite,
                   response, calls, original, csv_file>>

\* lines 143-156: the model is asked, and its answer is stored in the row
PdQuery ==
    /\ pc = "pd_loop"
    /\ idx < Len(rows)
    /\ ~(~overwrite /\ AllFilled(rows[idx + 1]))
    /\ \E outcome \in LoopOutcomes :
          LET result == query_ollama(outcome)
          IN  /\ calls' = Append(calls, Call("target", idx, Str(<<"prompt">>),
                                             outcome, result))
              /\ response' = result.value
              /\ df' = [df EXCEPT !.rows[idx + 1] = Answered(@, result.value)]
    /\ idx' = idx + 1
    /\ UNCHANGED <<converterVars, calculatorVars, pc, column_names, limit, overwrite,
                   original, csv_file>>

\* line 158: return df
PdReturn ==
    /\ pc = "pd_loop"
    /\ idx >= Len(rows)
    /\ pc' = "pd_returned"
    /\ UNCHANGED <<converterVars, otherPrograms>>

-----------------------------------------------------------------------------
(* process_csv_file *)

\* lines 92-107: the frame is cut to the limit, and the seven columns are
\* set to ''
CsvRead ==
    /\ pc = "csv_enter"
    /\ df' = Blanked([df EXCEPT !.rows = IF IsTrue(limit)
                                          THEN head(df.rows, limit.n)
                                          ELSE df.rows], TaskFields)
    /\ idx' = 0
    /\ pc' = "csv_loop"
    /\ UNCHANGED <<converterVars, calculatorVars, column_names, limit, overwrite, response,
                   calls, original, csv_file>>

\* lines 110-127: the model is asked about the row's task, the answer is
\* stored, and every tenth row the frame is saved
CsvQuery ==
    /\ pc = "csv_loop"
    /\ idx < Len(df.rows)
    /\ \E outcome \in LoopOutcomes :
          LET task_name == df.rows[idx + 1]["task_name"]
              result == tasks_query_ollama(task_name, outcome)
          IN  /\ calls' = Append(calls, Call("tasks", idx, task_name, outcome,
                                             result))
              /\ IF result.raised
                 THEN /\ pc' = "csv_raised"
                      /\ UNCHANGED <<df, idx, response, csv_file>>
                 ELSE /\ response' = result.value
                      /\ df' = [df EXCEPT !.rows[idx + 1] =
                                             Analyzed(@, result.value)]
                      /\ csv_file' = IF (idx + 1) % SaveEvery = 0
                                     THEN Written(df') ELSE csv_file
                      /\ idx' = idx + 1
                      /\ pc' = pc
    /\ UNCHANGED <<converterVars, calculatorVars, column_names, limit, overwrite, original>>

\* lines 129-132: the final save
CsvSave ==
    /\ pc = "csv_loop"
    /\ idx >= Len(df.rows)
    /\ csv_file' = Written(df)
    /\ pc' = "csv_done"
    /\ UNCHANGED <<converterVars, calculatorVars, df, column_names, limit, overwrite, idx,
                   response, calls, original>>

-----------------------------------------------------------------------------
(* query_ollama, called once with any outcome of the external call *)

TaskDescriptions == {Str(<<"t">>), NaN}

TargetQuery ==
    /\ pc = "query_target"
    /\ \E outcome \in Outcomes :
          LET result == query_ollama(outcome)
          IN  /\ calls' = Append(calls, Call("target", 0, Str(<<"prompt">>),
                                             outcome, result))
              /\ response' = IF result.raised THEN response ELSE result.value
              /\ pc' = IF result.raised THEN "query_raised"
                       ELSE "query_returned"
    /\ UNCHANGED <<converterVars, calculatorVars, df, column_names, limit, overwrite, idx,
                   original, csv_file>>

TasksQuery ==
    /\ pc = "query_tasks"
    /\ \E task_description \in TaskDescriptions, outcome \in Outcomes :
          LET result == tasks_query_ollama(task_description, outcome)
          IN  /\ calls' = Append(calls, Call("tasks", 0, task_description,
                                             outcome, result))
              /\ response' = IF result.raised THEN response ELSE result.value
              /\ pc' = IF result.raised THEN "query_raised"
                       ELSE "query_returned"
    /\ UNCHANGED <<converterVars, calculatorVars, df, column_names, limit, overwrite, idx,
                   original, csv_file>>

-----------------------------------------------------------------------------
(* Specification of the programs that query the model *)

InitOllama ==
    /\ ConverterIdle
    /\ CalculatorIdle
    /\ response = NoResponse
    /\ calls = <<>>
    /\ idx = 0
    /\ csv_file = NoFile
    /\ \/ /\ pc = "pd_enter"
          /\ df \in TargetFrames
          /\ column_names \in ColumnChoices
          /\ limit \in Limits
          /\ overwrite \in BOOLEAN
       \/ /\ pc = "csv_enter"
          /\ df \in TaskFrames
          /\ column_names = TaskFields
          /\ limit \in Limits
          /\ overwrite = FALSE
       \/ /\ pc \in {"query_target", "query_tasks"}
          /\ df = NoFrame
          /\ column_names = <<>>
          /\ limit = None
          /\ overwrite = FALSE
    /\ original = df

NextOllama ==
    \/ PdEnter
    \/ PdSkip
    \/ PdQuery
    \/ PdReturn
    \/ CsvRead
    \/ CsvQuery
    \/ CsvSave
    \/ TargetQuery
    \/ TasksQuery

SpecOllama == InitOllama /\ [][NextOllama]_vars

-----------------------------------------------------------------------------
(* The calculator: main of src/main.py *)

MaxParams == 2   \* --param options on the command line

\* float(text) is defined for digits with at most one "." in them, white
\* space around them allowed (of the texts over the atoms used here), else
\* ValueError
DigitValue(c) == CHOOSE n \in 0..9 : DecimalDigits[n + 1] = c
IsFloat(text) ==
    LET s == Strip(text)
    IN  /\ \A k \in 1..Len(s) : s[k] \in Digits \cup {"."}
        /\ Cardinality({k \in 1..Len(s) : s[k] = "."}) <= 1
        /\ \E k \in 1..Len(s) : s[k] \in Digits
RECURSIVE Mantissa(_)
Mantissa(ds) ==
    IF ds = <<>> THEN 0
    ELSE 10 * Mantissa(SubSeq(ds, 1, Len(ds) - 1)) + DigitValue(ds[Len(ds)])
RECURSIVE Normal(_, _)
Normal(m, e) ==
    IF e < 0 /\ m % 10 = 0 THEN Normal(m \div 10, e + 1) ELSE Float(m, e)
ToFloat(text) ==
    LET s == Strip(text)
        point == find(s, ".")
    IN  Normal(Mantissa(SelectSeq(s, LAMBDA c : c # ".")),
               IF point = -1 THEN 0 ELSE -(Len(s) - point - 1))

\* key, value = item.split("=", 1); key.strip()
ItemKey(item) == Strip(SubSeq(item, 1, find(item, "=")))
ItemValue(item) == SubSeq(item, find(item, "=") + 2, Len(item))

\* neither ValueError of parse_param_overrides is raised for the item
ValidItem(item) == find(item, "=") # -1 /\ IsFloat(ItemValue(item))

\* parse_param_overrides(pairs) when it raises nothing: of two items with one
\* key the later one counts
RECURSIVE parse_param_overrides(_)
parse_param_overrides(pairs) ==
    IF pairs = <<>> THEN <<>>
    ELSE (ItemKey(pairs[Len(pairs)]) :> ToFloat(ItemValue(pairs[Len(pairs)])))
         @@ parse_param_overrides(SubSeq(pairs, 1, Len(pairs) - 1))
ParseRaises(pairs) == \E k \in 1..Len(pairs) : ~ValidItem(pairs[k])

\* apply_named_overrides, for one name: None is passed over
Named(d, key, value) == IF value = None THEN d ELSE (key :> value) @@ d
apply_named_overrides(d, A, alpha, beta) ==
    Named(Named(Named(d, <<"A">>, A), <<"alpha">>, alpha), <<"beta">>, beta)

\* faulty variant of Update: the entries that are there are kept
UpdateKeep(d, overrides) == d @@ overrides

\* params.update(overrides)
Update(d, overrides) == overrides @@ d

\* str.lower of a function name
lower(name) ==
    CASE name = "CES" -> "ces"
      [] name = "Leontief" -> "leontief"
      [] OTHER -> name

\* get_production_function(name) when it raises nothing
get_production_function(name) == registry[lower(name)]

\* params = production_fn["defaults"].copy(): params is a dict of its own,
\* and what is stored in it is not stored in the registry
CopiesDefaults == TRUE
Registry(d) ==
    IF CopiesDefaults THEN registry
    ELSE [registry EXCEPT ![lower(args.function)] = d]

\* if args.list_functions: print_available_functions(); return
ListFunctions ==
    /\ pc = "main"
    /\ args.list_functions
    /\ pc' = "main_returned"
    /\ UNCHANGED <<converterVars, otherPrograms>>

\* lines 157-165: the defaults are copied, and the shortcuts that were given
\* are stored
BuildParams ==
    /\ pc = "main"
    /\ ~args.list_functions
    /\ lower(args.function) \in DOMAIN registry
    /\ params' = apply_named_overrides(get_production_function(args.function),
                                       args.total_factor, args.alpha, args.beta)
    /\ registry' = Registry(params')
    /\ pc' = "main_params"
    /\ UNCHANGED <<converterVars, df, column_names, limit, overwrite, idx,
                   response, calls, original, csv_file, args, handed>>

\* lines 167-176: the --param options are stored, or the program exits on a
\* parameter error; it exits if a key of the defaults is missing
UpdateParams ==
    /\ pc = "main_params"
    /\ IF ParseRaises(args.param)
       THEN /\ pc' = "main_parameter_error"
            /\ UNCHANGED <<params, registry>>
       ELSE /\ params' = Update(params, parse_param_overrides(args.param))
            /\ registry' = Registry(params')
            /\ pc' = IF \E key \in DOMAIN registry'[lower(args.function)] :
                           key \notin DOMAIN params'
                     THEN "main_missing" ELSE "main_call"
    /\ UNCHANGED <<converterVars, df, column_names, limit, overwrite, idx,
                   response, calls, original, csv_file, args, handed>>

\* lines 178-185: the production function is called with params
Evaluate ==
    /\ pc = "main_call"
    /\ handed' = CalledWith(params)
    /\ pc' = "main_done"
    /\ UNCHANGED <<converterVars, df, column_names, limit, overwrite, idx,
                   response, calls, original, csv_file, args, params, registry>>

\* the command lines
ParamItems ==
    { <<"alpha", "=", "5">>, <<" ", "alpha", " ", "=", "1", ".", "5">>,
      <<"A", "=", ".", "5">>, <<"rho", "=", "1", "5", ".">>,
      <<"alpha", "=", "x">>, <<"alpha">>, <<"alpha", "=", "1", "=", "5">> }
CommandLines ==
    [function : DOMAIN PRODUCTION_FUNCTIONS,
     total_factor : {None, Float(2, 0)},
     alpha : {None, Float(0, 0), Float(5, -1)},
     beta : {None, Float(5, -1)},
     param : SeqUpTo(ParamItems, MaxParams),
     list_functions : BOOLEAN]

InitMain ==
    /\ pc = "main"
    /\ ConverterIdle
    /\ OllamaIdle
    /\ args \in CommandLines
    /\ params = <<>>
    /\ registry = PRODUCTION_FUNCTIONS
    /\ handed = NotCalled

NextMain ==
    \/ ListFunctions
    \/ BuildParams
    \/ UpdateParams
    \/ Evaluate

SpecMain == InitMain /\ [][NextMain]_vars

-----------------------------------------------------------------------------
(* Vocabulary of the properties, stated over the document and not over the   *)
(* scan: 0-based line indices, as in the source.                             *)

\* the file stem of the file being parsed
Stem == txt_files[f].stem

\* the text after a leading prefix, trimmed
Remainder(s, prefix) == Strip(From(s, Len(prefix)))

\* the lines that match the record-start pattern "<digits>. <ID> - <title>"
RecordStarts == {k \in 0..(Len(lines) - 1) : SeriesMatch(Strip(Item(k))).ok}

\* the n-th record-start line, in document order
NthStart(n) ==
    CHOOSE k \in RecordStarts : Cardinality({m \in RecordStarts : m < k}) = n - 1

\* the first record-start line behind line s, or the end of the document
NextStartAfter(s) ==
    IF {k \in RecordStarts : k > s} = {} THEN Len(lines)
    ELSE Min({k \in RecordStarts : k > s})

\* the lines the lookahead of the n-th emitted record went over
Body(n) == (spans[n].start + 1)..(spans[n].stop - 1)

\* the lines of a body taking a given branch of the if/elif chain
Taking(n, b) ==
    {k \in Body(n) : Strip(Item(k)) # <<>> /\ Branch(Strip(Item(k))) = b}

\* the first 10 lines that begin with "Query: " (1-based positions)
QueryLines ==
    {k \in 1..Len(lines) : k <= QueryScanLimit /\ StartsWith(lines[k], QueryPrefix)}

-----------------------------------------------------------------------------
(* Properties *)

\* C1: the parser has no error path: no subscript is ever out of range (the
\* only operation of the scan that can raise), and every call that returns
\* returns a value with a query and a results list, which is empty when the
\* document has no record-start line.
C1_NoErrorPath ==
    /\ pc # "raised"
    /\ pc = "returned" =>
          /\ {"query", "results"} \subseteq DOMAIN data
          /\ Len(data.results) <= Len(lines)
          /\ RecordStarts = {} => data.results = <<>>

\* C1 witness: a call on garbage (stray text, a metadata line, a numbered
\* line that is no record start) has returned no record.
C1_Witness ==
    /\ pc = "returned"
    /\ Len(lines) >= 3
    /\ RecordStarts = {}
    /\ \E k \in 1..Len(lines) : MatchNumbered(Strip(lines[k]))
    /\ \E k \in 1..Len(lines) : Branch(Strip(lines[k])) = "units"
    /\ data.results = <<>>

\* C2: records never share lines.  For every emitted record the lines its
\* lookahead went over start behind its record-start line and end strictly
\* before the next record-start line of the document, every line that set one
\* of its fields lies in that range, and the next record starts at or behind
\* the end of it.
C2_RecordsNeverShareLines ==
    pc = "returned" =>
       /\ Len(spans) = Len(data.results)
       /\ \A n \in 1..Len(spans) :
             /\ spans[n].start < spans[n].stop
             /\ spans[n].stop <= NextStartAfter(spans[n].start)
             /\ spans[n].used \subseteq Body(n)
             /\ n < Len(spans) => spans[n].stop <= spans[n + 1].start

\* C2 witness: two records with no blank line between them, each with a
\* metadata line of its own.
C2_Witness ==
    /\ pc = "returned"
    /\ Len(spans) = 2
    /\ spans[1].stop = spans[2].start
    /\ spans[1].used # {}
    /\ spans[2].used # {}
    /\ data.results[1].units = <<"u">>
    /\ data.results[2].units = <<"u">>

\* C3: the entries correspond one to one, in document order, with the
\* record-start lines: as many entries as record-start lines, the n-th entry
\* carries the id and the title of the n-th record-start line, and every id
\* is a non-empty string of upper-case letters and digits.
C3_EntriesMatchRecordStarts ==
    pc = "returned" =>
       /\ Len(data.results) = Cardinality(RecordStarts)
       /\ \A n \in 1..Len(data.results) :
             LET m == SeriesMatch(Strip(Item(NthStart(n))))
                 e == data.results[n]
             IN  /\ e.series_id = m.g1
                 /\ e.title = Strip(m.g2)
                 /\ e.series_id # <<>>
                 /\ \A k \in 1..Len(e.series_id) : e.series_id[k] \in IdChars
                 /\ Strip(Item(NthStart(n))) = RecA =>
                       e.series_id = <<"A">> /\ e.title = <<"s">>
                 /\ Strip(Item(NthStart(n))) = RecB =>
                       e.series_id = <<"B", "2">> /\ e.title = <<"t">>

\* C3 witness: an id that occurs twice is emitted twice, in document order
\* around another record.
C3_Witness ==
    /\ pc = "returned"
    /\ Len(data.results) = 3
    /\ data.results[1].series_id = <<"A">>
    /\ data.results[2].series_id = <<"B", "2">>
    /\ data.results[3].series_id = <<"A">>

\* the n-th emitted record has exactly one Notes: line, carrying the sentinel,
\* and no other line of its body contains "Notes:"
OnlySentinelNotes(n) ==
    \E k \in Body(n) :
        /\ StartsWith(Strip(Item(k)), NotesPrefix)
        /\ Remainder(Strip(Item(k)), NotesPrefix) = NoDescription
        /\ \A m \in Body(n) \ {k} : ~Contains(Item(m), "Notes:")

\* a line of the n-th record's body that takes the else branch directly
\* behind a line containing "Notes:"
FollowsNotes(n) ==
    {k \in Taking(n, "other") : k - 1 \in Body(n) /\ Contains(Item(k - 1), "Notes:")}

\* C4 as claimed: a record whose only Notes: line carries the sentinel is
\* emitted with empty notes, whatever the other lines of its lookahead are.
C4_SentinelAlwaysEmpty ==
    pc = "returned" =>
       \A n \in 1..Len(spans) :
          OnlySentinelNotes(n) => data.results[n].notes = <<>>

\* C4 amended: a record whose only Notes: line carries the sentinel is emitted
\* with empty notes provided no non-blank line without one of the four
\* prefixes directly follows the Notes: line inside the lookahead.
C4_SentinelElision ==
    pc = "returned" =>
       \A n \in 1..Len(spans) :
          (OnlySentinelNotes(n) /\ FollowsNotes(n) = {}) =>
              data.results[n].notes = <<>>

\* C4 witness: a sentinel Notes: line between an unprefixed line and a Units:
\* line; the record is emitted with its units and with empty notes.
C4_Witness ==
    /\ pc = "returned"
    /\ Len(spans) = 1
    /\ OnlySentinelNotes(1)
    /\ FollowsNotes(1) = {}
    /\ Taking(1, "other") # {}
    /\ data.results[1].units = <<"u">>
    /\ data.results[1].notes = <<>>

\* C5 as claimed: whenever the lookahead consumes a line that starts with one
\* of the four prefixes, the value stored in the field (appended to the notes,
\* unless it is the sentinel) is the text behind that leading prefix, trimmed.
C5_StoresRemainder ==
    [][(pc = "look_body" /\ pc' = "look" /\ j' = j + 1) =>
          /\ Branch(next_line) = "units" =>
                metadata'.units = Remainder(next_line, UnitsPrefix)
          /\ Branch(next_line) = "frequency" =>
                metadata'.frequency = Remainder(next_line, FrequencyPrefix)
          /\ Branch(next_line) = "last_updated" =>
                metadata'.last_updated = Remainder(next_line, LastUpdatedPrefix)
          /\ (Branch(next_line) = "notes"
                /\ Remainder(next_line, NotesPrefix) # NoDescription) =>
                notes_lines' = Append(notes_lines, Remainder(next_line, NotesPrefix))
      ]_vars

\* C6 as claimed: when one of the first 10 lines begins with "Query: ", the
\* query is the text behind that prefix on the first such line, trimmed.
C6_QueryIsRemainder ==
    (pc = "returned" /\ QueryLines # {}) =>
        data.query = Remainder(lines[Min(QueryLines)], QueryPrefix)

\* C7: the query is the caller's label (the file stem) exactly when none of
\* the first 10 lines begins with "Query: ".
C7_FallbackLabel ==
    pc = "returned" => (data.query = Stem <=> QueryLines = {})

\* C7 witness: the 11th line of the document is a Query: line, no earlier one
\* is, and the query is the file stem.
C7_Witness ==
    /\ pc = "returned"
    /\ Len(lines) > QueryScanLimit
    /\ StartsWith(lines[QueryScanLimit + 1], QueryPrefix)
    /\ QueryLines = {}
    /\ data.query = Stem

\* the prefixed lines of a metadata run
MetadataKeywords == {"Units:", "Frequency:", "Last Updated:", "Notes:"}

\* every line of r is a line for one of the four prefixes, each prefix at
\* most once
IsMetadataRun(r) ==
    /\ \A k \in 1..Len(r) : Strip(r[k]) # <<>> /\ Strip(r[k])[1] \in MetadataKeywords
    /\ \A k, m \in 1..Len(r) : k # m => Strip(r[k])[1] # Strip(r[m])[1]

IsRearrangement(a, b) ==
    /\ Len(a) = Len(b)
    /\ \E pi \in Permutations(1..Len(a)) : \A k \in 1..Len(a) : b[k] = a[pi[k]]

\* the two files hold the same record-start line followed by the same
\* metadata run, differently arranged
IsRunPair ==
    /\ Len(txt_files) = 2
    /\ txt_files[1].content # <<>>
    /\ txt_files[2].content # <<>>
    /\ Head(txt_files[1].content) = Head(txt_files[2].content)
    /\ SeriesMatch(Head(txt_files[1].content)).ok
    /\ IsMetadataRun(Tail(txt_files[1].content))
    /\ IsRearrangement(Tail(txt_files[1].content), Tail(txt_files[2].content))

\* C8 as claimed: a record-start line followed by a metadata run with at most
\* one line for each prefix yields the same record however the run is
\* arranged.
C8_OrderIndependent ==
    (pc = "finished" /\ IsRunPair) => returned[1].results = returned[2].results

\* what the notes of a record are made of: going over the lines first..stop-1
\* in order, the non-sentinel Notes: remainders and the unprefixed lines
\* absorbed as continuations (the list is non-empty, or the raw line before
\* contains "Notes:"), each trimmed
RECURSIVE Collected(_, _, _, _)
Collected(k, stop, start, acc) ==
    IF k >= stop THEN acc
    ELSE LET s == Strip(Item(k))
             more ==
                 IF s = <<>> THEN acc
                 ELSE IF Branch(s) = "notes"
                 THEN IF Remainder(s, NotesPrefix) # NoDescription
                      THEN Append(acc, Remainder(s, NotesPrefix))
                      ELSE acc
                 ELSE IF Branch(s) = "other"
                         /\ (acc # <<>>
                             \/ (k > start + 1 /\ Contains(Item(k - 1), "Notes:")))
                 THEN Append(acc, s)
                 ELSE acc
         IN  Collected(k + 1, stop, start, more)

\* C9 as claimed: the notes of a record are its non-sentinel Notes: remainders
\* and its absorbed continuation lines, in document order, joined by one
\* space; the empty string when there are none.
C9_NotesJoined ==
    pc = "returned" =>
       \A n \in 1..Len(spans) :
          data.results[n].notes =
              Join(Collected(spans[n].start + 1, spans[n].stop, spans[n].start, <<>>))

C11_ResultCount ==
    pc = "returned" =>
       /\ "result_count" \in DOMAIN data
       /\ data.result_count = Len(data.results)

\* C11 witness: the parser has returned from the empty document, with
\* result_count 0 and no results.
C11_Witness ==
    /\ pc = "returned"
    /\ lines = << <<>> >>
    /\ "result_count" \in DOMAIN data
    /\ data.result_count = 0
    /\ data.results = <<>>

\* the branches of the if/elif chain that store a field
FieldBranches == {"units", "frequency", "last_updated", "notes"}

\* C14: the lookahead stops at a non-blank line only when that line is a
\* record-start line "<digits>. <ID> - <title>": it ends at the next
\* record-start line (or at the blank line before it, or at the end of the
\* document), and every prefixed metadata line between a record-start line
\* and the next one has set a field of that record.
C14_StopsOnlyAtRecordStart ==
    pc = "returned" =>
       \A n \in 1..Len(spans) :
          LET next == NextStartAfter(spans[n].start)
          IN  /\ spans[n].stop \in {next - 1, next}
              /\ \A k \in (spans[n].start + 1)..(next - 1) :
                    ( /\ Strip(Item(k)) # <<>>
                      /\ Branch(Strip(Item(k))) \in FieldBranches
                      /\ Strip(Item(k)) # Strip(SentinelLine) )
                    => k \in spans[n].used

\* a step of the lookahead through the else branch of the if/elif chain: the
\* line at j is not blank, does not stop the lookahead and has none of the
\* four prefixes
ElseBranchStep ==
    /\ pc = "look_body"
    /\ pc' = "look"
    /\ next_line # <<>>
    /\ Branch(next_line) = "other"

AllIn(s, lo, hi, C) == \A k \in lo..hi : s[k] \in C

\* s reads <digits>.<spaces><id><spaces>-<spaces><title>, each part at least
\* one character long: the pattern ^\d+\.\s+([A-Z0-9]+)\s+-\s+(.+)$
MatchesSpaced(s) ==
    \E a \in 1..Len(s) :
       /\ AllIn(s, 1, a, Digits)
       /\ a + 1 <= Len(s) /\ s[a + 1] = "."
       /\ \E b \in (a + 2)..Len(s) :
             /\ AllIn(s, a + 2, b, {" "})
             /\ \E c \in (b + 1)..Len(s) :
                   /\ AllIn(s, b + 1, c, IdChars)
                   /\ \E d \in (c + 1)..Len(s) :
                         /\ AllIn(s, c + 1, d, {" "})
                         /\ d + 1 <= Len(s) /\ s[d + 1] = "-"
                         /\ \E e \in (d + 2)..(Len(s) - 1) :
                               AllIn(s, d + 2, e, {" "})

\* the ways to read s as <digits>. <id> - <title> with exactly one space
\* behind the dot and one between the id and the hyphen, a space behind the
\* hyphen and at least one more character: <<a, c>> are the positions of the
\* last digit and of the last character of the id
SingleSpacedSplits(s) ==
    {ac \in (1..Len(s)) \X (1..Len(s)) :
        /\ AllIn(s, 1, ac[1], Digits)
        /\ ac[2] >= ac[1] + 3
        /\ ac[2] + 4 <= Len(s)
        /\ AllIn(s, ac[1] + 3, ac[2], IdChars)
        /\ SubSeq(s, ac[1] + 1, ac[1] + 2) = <<".", " ">>
        /\ SubSeq(s, ac[2] + 1, ac[2] + 3) = <<" ", "-", " ">>}

\* the lines the main scan took for record starts, in order
Recognised == {spans[n].start : n \in 1..Len(spans)}

\* C16 (as stated): a trimmed line is taken for a record start exactly when
\* it matches ^\d+\.\s+([A-Z0-9]+)\s+-\s+(.+)$, whatever the amount of white
\* space around the id and the hyphen.
C16_SpacedPattern ==
    pc = "returned" =>
       Recognised = {k \in 0..(Len(lines) - 1) : MatchesSpaced(Strip(Item(k)))}

\* C16 (amended): a trimmed line is taken for a record start exactly when it
\* reads <digits>. <ID> - <title> with single spaces behind the dot and before
\* the hyphen; the entry carries the id and the trimmed title.
C16_SingleSpacedPattern ==
    pc = "returned" =>
       /\ Len(spans) = Len(data.results)
       /\ \A k \in 0..(Len(lines) - 1) :
             k \in Recognised <=> SingleSpacedSplits(Strip(Item(k))) # {}
       /\ \A n \in 1..Len(spans) :
             LET s == Strip(Item(spans[n].start))
             IN  \E ac \in SingleSpacedSplits(s) :
                    /\ data.results[n].series_id = SubSeq(s, ac[1] + 3, ac[2])
                    /\ data.results[n].title =
                          Strip(SubSeq(s, ac[2] + 4, Len(s)))

\* C16 witness: a document in which lines with two spaces behind the dot or
\* before the hyphen stand behind a record-start line, and only that one
\* record is returned.
C16_Witness ==
    /\ pc = "returned"
    /\ Len(data.results) = 1
    /\ \E k \in 1..Len(lines) : lines[k] = WideHyphenLine
    /\ \E k \in 1..Len(lines) : MatchesSpaced(lines[k]) /\ ~SeriesMatch(lines[k]).ok
    /\ lines[1] = RecA

\* the lines that begin with one of the four header prefixes
HeaderLines == {k \in 0..(Len(lines) - 1) : IsHeader(Strip(Item(k)))}

\* C18 (as stated): a line beginning with "FRED Series", "Query:",
\* "Timestamp:" or "Total Results:" is skipped wherever it occurs: it feeds no
\* field of any record.
C18_HeaderNeverUsed ==
    pc = "returned" =>
       \A n \in 1..Len(spans) : spans[n].used \cap HeaderLines = {}

\* C18 (amended): a header line is skipped by the main scan; inside the
\* lookahead of a record it is an unprefixed line like any other, and feeds
\* the notes of that record exactly when notes have been collected before it
\* or the line before it, not the record-start line, contains "Notes:".  It
\* feeds no record outside the lookahead that went over it.
C18_HeaderUsedAsContinuation ==
    pc = "returned" =>
       \A n \in 1..Len(spans) : \A k \in HeaderLines :
          k \in spans[n].used <=>
             /\ k \in Body(n)
             /\ \/ Collected(spans[n].start + 1, k, spans[n].start, <<>>) # <<>>
                \/ (k > spans[n].start + 1 /\ Contains(Item(k - 1), "Notes:"))

\* C18 witness: of two Query: lines behind a record-start line, the one
\* before the Notes: line was dropped and the one behind it became part of
\* the notes.
C18_Witness ==
    /\ pc = "returned"
    /\ Len(spans) = 1
    /\ \E k1 \in HeaderLines, k2 \in HeaderLines :
          /\ k1 < k2
          /\ {k1, k2} \subseteq Body(1)
          /\ k1 \notin spans[1].used
          /\ k2 \in spans[1].used
    /\ data.results[1].notes = <<"n", " ">> \o QueryLine

\* the indices stay within the document: 0 <= i <= len(lines), and
\* i < j <= len(lines) during a lookahead
IndicesBounded ==
    /\ pc \in {"main", "main_body", "look", "look_body", "emit", "return"} =>
          i \in 0..Len(lines)
    /\ pc \in {"look", "look_body", "emit"} => j \in (i + 1)..Len(lines)

\* an iteration of the main loop ends: by i += 1, or by i = j behind a record
MainIterationEnds == pc \in {"main_body", "emit"} /\ pc' = "main"

\* an iteration of the lookahead loop ends without stopping the lookahead
LookIterationEnds == pc = "look_body" /\ pc' = "look"

\* C19: the scan terminates on every document.  i and j stay within the
\* document, every iteration of the main loop strictly increases i (behind a
\* record it resumes at j >= i + 1), every iteration of the lookahead stops
\* it or strictly increases j, and every run reaches the end of the driver.
C19_Terminates ==
    /\ []IndicesBounded
    /\ [][MainIterationEnds => (i' > i /\ (pc = "emit" => i' = j))]_vars
    /\ [][LookIterationEnds => (j' = j + 1 /\ i' = i)]_vars
    /\ <>(pc = "finished")

\* C19 witness: a scan whose lookahead went over a blank line and on to the
\* end of the document is over, with i at the end of the document.
C19_Witness ==
    /\ pc = "finished"
    /\ Len(lines) = MaxFields
    /\ Len(spans) = 1
    /\ Item(1) = Blank
    /\ spans[1].stop = Len(lines)
    /\ i = Len(lines)

\* position k of document c (1-based) lies inside the lookahead of a record:
\* a record-start line stands before it, and between the two there is no
\* numbered line and no blank line followed by one
InsideLookahead(c, k) ==
    \E s \in 1..(k - 1) :
       /\ SeriesMatch(Strip(c[s])).ok
       /\ \A m \in (s + 1)..k : ~MatchNumbered(Strip(c[m]))
       /\ \A m \in (s + 1)..(k - 1) :
             Strip(c[m]) = <<>> => ~MatchNumbered(Strip(c[m + 1]))

\* line k of c is a blank line inside a lookahead, not immediately followed
\* by a record-start line
SeparatorAt(c, k) ==
    /\ k \in 2..(Len(c) - 1)
    /\ Strip(c[k]) = <<>>
    /\ InsideLookahead(c, k)
    /\ ~SeriesMatch(Strip(c[k + 1])).ok

\* line k of c stands between a line containing "Notes:" and a non-blank line
\* that has none of the four prefixes and is not numbered
BehindNotes(c, k) ==
    /\ Contains(c[k - 1], "Notes:")
    /\ Strip(c[k + 1]) # <<>>
    /\ Branch(Strip(c[k + 1])) = "other"
    /\ ~MatchNumbered(Strip(c[k + 1]))

\* the second file is the first one with its k-th line deleted
DeletedAt(k) ==
    /\ Len(txt_files) = 2
    /\ txt_files[1].content = ReadLines(txt_files[1].content)
    /\ k \in 1..Len(txt_files[1].content)
    /\ txt_files[2].content = Without(txt_files[1].content, k)

DistinctNames ==
    \A a \in 1..Len(txt_files), b \in 1..Len(txt_files) :
       a # b => txt_files[a].stem # txt_files[b].stem

\* C12: after convert_all_search_results has returned, the consolidated
\* output holds the parsed result of every .txt file: it has as many entries
\* as there are files, and the value returned for each file is one of them,
\* whatever query labels the files carry.
C12_EveryFileConsolidated ==
    (pc = "finished" /\ DistinctNames) =>
       /\ output_file.exists
       /\ Cardinality(DOMAIN output_file.content) = Len(txt_files)
       /\ \A k \in 1..Len(txt_files) :
             \E q \in DOMAIN output_file.content :
                output_file.content[q] = returned[k]

\* the table rows of a rendered section: its lines that begin with "|"
TableRows(sec) == SelectSeq(sec, LAMBDA l : l # <<>> /\ l[1] = "|")

\* the cell delimiters of a table row, as a Markdown reader sees them: the
\* "|" characters that do not follow a backslash
Delimiters(row) ==
    {k \in 1..Len(row) : row[k] = "|" /\ (k = 1 \/ row[k - 1] # "\\")}

\* the c-th delimiter of a row
NthDelimiter(row, c) ==
    CHOOSE k \in Delimiters(row) :
       Cardinality({m \in Delimiters(row) : m < k}) = c - 1

\* a cell's text with every "\|" read as "|"
RECURSIVE Unescaped(_)
Unescaped(text) ==
    IF text = <<>> THEN <<>>
    ELSE IF Len(text) >= 2 /\ text[1] = "\\" /\ text[2] = "|"
    THEN <<"|">> \o Unescaped(SubSeq(text, 3, Len(text)))
    ELSE <<Head(text)>> \o Unescaped(Tail(text))

\* the c-th cell of a row: the text between two delimiters, without the
\* space on either side, unescaped
Cell(row, c) ==
    LET lo == NthDelimiter(row, c)
        hi == NthDelimiter(row, c + 1)
    IN  Unescaped(SubSeq(row, lo + 2, hi - 2))

\* the fields of an entry in the order of the table's columns
Columns(e) ==
    <<e.series_id, e.title, e.frequency, e.units, e.last_updated, e.notes>>

\* the number of "|" characters of a text
Pipes(text) == Cardinality({k \in 1..Len(text) : text[k] = "|"})

\* the value the Markdown converter rendered into its k-th section
Rendered(k) == returned[Len(returned) - (Len(consolidated_sections) - k)]

\* C13: the section rendered for a result with n > 0 records has a table of
\* exactly n data rows behind the header row and the separator row, the r-th
\* row holding the six fields of the r-th record in its six cells, with every
\* "|" of a field emitted as "\|"; for n = 0 it has the line
\* "_No series found._" and no table row.
C13_RowsPerRecord ==
    \A k \in 2..Len(consolidated_sections) :
       LET sec == consolidated_sections[k]
           d == Rendered(k)
           n == Len(d.results)
       IN  IF n = 0
           THEN /\ TableRows(sec) = <<>>
                /\ \E l \in 1..Len(sec) : sec[l] = NoSeriesLine
           ELSE /\ Len(TableRows(sec)) = n + 2
                /\ TableRows(sec)[1] = TableHeader
                /\ TableRows(sec)[2] = TableSeparator
                /\ \A l \in 1..Len(sec) : sec[l] # NoSeriesLine
                /\ \A r \in 1..n :
                      LET row == TableRows(sec)[r + 2]
                          e == Columns(d.results[r])
                      IN  /\ Cardinality(Delimiters(row)) = Len(e) + 1
                          /\ row[1] = "|" /\ row[Len(row)] = "|"
                          /\ \A c \in 1..Len(e) : Cell(row, c) = e[c]
                          /\ \A m \in 1..Len(row) :
                                (row[m] = "|" /\ m \notin Delimiters(row))
                                => row[m - 1] = "\\"
                          /\ Pipes(row) = Len(e) + 1
                                + Pipes(e[1] \o e[2] \o e[3] \o e[4] \o e[5] \o e[6])

\* C13 witness: a section has been rendered for two records, one with "|" in
\* its title and one with "|" in its notes and its units.
C13_Witness ==
    /\ Len(consolidated_sections) = 2
    /\ Len(Rendered(2).results) = 2
    /\ \E r \in 1..2 : Pipes(Rendered(2).results[r].title) = 1
    /\ \E r \in 1..2 :
          /\ Pipes(Rendered(2).results[r].notes) = 3
          /\ Pipes(Rendered(2).results[r].units) = 1
    /\ Len(TableRows(consolidated_sections[2])) = 4
    /\ pc = "md_finished"
    /\ markdown_file = Written(HeadingSection \o consolidated_sections[2])

\* C13 witness for a result without records: the section holds the line
\* "_No series found._".
C13_WitnessEmpty ==
    /\ Len(consolidated_sections) = 2
    /\ Rendered(2).results = <<>>
    /\ consolidated_sections[2][4] = NoSeriesLine

\* C20: the two copies of parse_search_result_file are equivalent: run on the
\* same file, the copy of the Markdown converter subscripts the same line
\* indices in the same order as the copy of the JSON converter and returns
\* the same query, result_count and results.
C20_CopiesEquivalent ==
    pc = "md_finished" =>
       /\ Len(returned) = 2 * Len(txt_files)
       /\ Len(traces) = 2 * Len(txt_files)
       /\ \A k \in 1..Len(txt_files) :
             /\ returned[Len(txt_files) + k].query = returned[k].query
             /\ returned[Len(txt_files) + k].result_count = returned[k].result_count
             /\ returned[Len(txt_files) + k].results = returned[k].results
             /\ traces[Len(txt_files) + k] = traces[k]

\* C20 witness: both copies have parsed a document with two records, a
\* Query: line and continuation lines, going through both loops.
C20_Witness ==
    /\ pc = "md_finished"
    /\ Len(returned) = 2
    /\ Len(returned[2].results) = 2
    /\ returned[2].query = <<"k">>
    /\ returned[2].results[1].units = <<"u">>
    /\ Len(traces[2]) > Len(lines)

\* the entry the parser should return for a saved series
SavedEntry(s) ==
    [series_id |-> s.id, title |-> s.title, frequency |-> s.frequency,
     units |-> s.units, last_updated |-> s.last_updated,
     notes |-> Get(s, "notes", <<>>)]

\* C21: round trip with the producer.  Parsing the .txt file written by
\* save_results(query, series, selected_series) returns that query and, for
\* each series in order, its id, title, units, frequency, last_updated and
\* notes (empty when the series has none), whether selected_series is None or
\* one of the series.
C21_RoundTrip ==
    (pc = "returned" /\ txt_files[f] \in SavedFiles) =>
       \A q \in SavedQueries, series \in SeriesLists, ts \in Timestamps :
          \A sel \in Selections(series) :
             txt_files[f] = SaveResults(q, series, sel, ts) =>
                /\ data.query = q
                /\ data.results = [n \in 1..Len(series) |-> SavedEntry(series[n])]


-----------------------------------------------------------------------------
(* The programs that query the model *)

\* the external call failed: it timed out, could not be launched, or ended
\* with a non-zero exit status
CallFailed(outcome) ==
    outcome.kind \in {"timeout", "exception"} \/ outcome.returncode # 0

\* the output holds a JSON object: a "{" with a "}" behind it, and the text
\* from the first "{" to the last "}" is an object
Braces(text) == {p \in (1..Len(text)) \X (1..Len(text)) :
                    /\ p[1] < p[2]
                    /\ text[p[1]] = "{"
                    /\ text[p[2]] = "}"
                    /\ \A k \in 1..(p[1] - 1) : text[k] # "{"
                    /\ \A k \in (p[2] + 1)..Len(text) : text[k] # "}"}
HoldsObject(text) ==
    \E p \in Braces(text) : IsObject(Tokens(SubSeq(text, p[1], p[2])))
ObjectIn(text) ==
    LET p == CHOOSE p \in Braces(text) : TRUE
    IN  ObjectOf(Tokens(SubSeq(text, p[1], p[2])))

\* a tagged error value: {"error": text} of the one program, the seven fields
\* set to one tag of the other
ErrorTags == {"TIMEOUT", "ERROR", "PARSE_ERROR", "JSON_ERROR"}
IsTagged(c) ==
    IF c.program = "target"
    THEN DOMAIN c.value = {"error"} /\ c.value["error"].type = "str"
    ELSE \E tag \in ErrorTags : c.value = Tagged(tag)

\* C22: query_ollama never raises: when the external call times out, cannot
\* be launched, ends with a non-zero exit status, or puts out no JSON object
\* or a malformed one, the call returns a tagged error value, and otherwise
\* it returns the JSON object parsed from the output.
C22_NeverRaises ==
    \A k \in 1..Len(calls) :
       /\ ~calls[k].raised
       /\ IF CallFailed(calls[k].outcome)
             \/ ~HoldsObject(calls[k].outcome.stdout)
          THEN IsTagged(calls[k])
          ELSE calls[k].value = ObjectIn(calls[k].outcome.stdout)

\* the same for the calls whose argument is a str
C22_NeverRaisesOnText ==
    \A k \in 1..Len(calls) :
       calls[k].argument.type = "str" =>
          /\ ~calls[k].raised
          /\ IF CallFailed(calls[k].outcome)
                \/ ~HoldsObject(calls[k].outcome.stdout)
             THEN IsTagged(calls[k])
             ELSE calls[k].value = ObjectIn(calls[k].outcome.stdout)

\* the cell has content
HasContent(value) == normalize_cell(value) # <<>>

\* the target columns the frame had when it was handed over
GivenTargets == Range(column_names) \cap Range(original.columns)

\* C23: without overwrite, process_dataframe never modifies a target-column
\* cell that already has content, and a row whose target columns are all
\* filled is not queried.
C23_FilledCellsKept ==
    (pc \in {"pd_loop", "pd_returned"} /\ ~overwrite) =>
       /\ \A k \in 1..Len(original.rows) : \A c \in GivenTargets :
             HasContent(original.rows[k][c]) =>
                df.rows[k][c] = original.rows[k][c]
       /\ \A n \in 1..Len(calls) :
             \E c \in Range(column_names) :
                c \in GivenTargets =>
                   ~HasContent(original.rows[calls[n].row + 1][c])

\* C24: with a limit n >= 0, the number of calls of query_ollama in a run of
\* process_dataframe or process_csv_file never exceeds n, and no row behind
\* the first n is queried.
C24_LimitBoundsCalls ==
    (pc \in {"pd_loop", "pd_returned", "csv_loop", "csv_raised", "csv_done"}
     /\ limit # None /\ limit.n >= 0) =>
       /\ Len(calls) <= limit.n
       /\ \A k \in 1..Len(calls) : calls[k].row < limit.n

-----------------------------------------------------------------------------
(* The converters on a directory that is missing or holds no .txt file *)

\* C25: if the input directory does not exist or holds no .txt file, the
\* conversion returns from its first lines: it never enters the loop or
\* raises, and the consolidated output files and the per-file outputs stay as
\* they were, missing or with their old content.
C25_EarlyReturnWritesNothing ==
    (~input_dir_exists \/ txt_files = <<>>) =>
       /\ pc \in {"enter", "early", "md_early"}
       /\ OutputFiles(output_file, markdown_file, json_files, md_files) = before

\* both conversions have returned from an existing directory without .txt
\* file, asked for per-file outputs, the old output files being there
C25_Witness ==
    /\ pc = "md_early"
    /\ input_dir_exists
    /\ txt_files = <<>>
    /\ individual_json
    /\ individual_markdown
    /\ before = OldOutputs
    /\ output_file = OldOutputs.output_file

-----------------------------------------------------------------------------
(* The calculator *)

\* the shortcut option of a parameter, None if it has none or none was given
Shortcut(key) ==
    IF key = <<"A">> THEN args.total_factor
    ELSE IF key = <<"alpha">> THEN args.alpha
    ELSE IF key = <<"beta">> THEN args.beta
    ELSE None

\* the --param options that name the parameter
Naming(key) == {k \in 1..Len(args.param) : ItemKey(args.param[k]) = key}

\* the defaults of the function chosen, as the module defines them
Defaults == PRODUCTION_FUNCTIONS[args.function]

\* C26: the params handed to the production function hold every key of the
\* function's defaults, each with the value of the last --param option that
\* names it, else with the value of its shortcut option if that was given,
\* else with its default; the exit on missing parameters is never taken, and
\* the registry's defaults stay as they are.
C26_Precedence ==
    /\ registry = PRODUCTION_FUNCTIONS
    /\ pc # "main_missing"
    /\ handed.called =>
          \A key \in DOMAIN Defaults :
             /\ key \in DOMAIN handed.params
             /\ handed.params[key] =
                   IF Naming(key) # {}
                   THEN ToFloat(ItemValue(args.param[Max(Naming(key))]))
                   ELSE IF Shortcut(key) # None THEN Shortcut(key)
                   ELSE Defaults[key]

\* the function was called with alpha from --param although --alpha was
\* given, with beta from --beta, and with A from the defaults
C26_Witness ==
    /\ pc = "main_done"
    /\ handed.called
    /\ args.function = "cobb_douglas"
    /\ args.alpha = Float(5, -1)
    /\ args.beta = Float(5, -1)
    /\ args.total_factor = None
    /\ args.param = << <<" ", "alpha", " ", "=", "1", ".", "5">> >>
    /\ handed.params[<<"alpha">>] = Float(15, -1)
    /\ handed.params[<<"beta">>] = Float(5, -1)
    /\ handed.params[<<"A">>] = Float(1, 0)

=============================================================================
